---- MODULE Spec2Model ----
(***************************************************************************)
(* Model of the velora validator (src/src/validator/validator.py): peer    *)
(* discovery, the three polling rounds of validate_step, the pool-event    *)
(* spot-check, the score maps, set_weights and validation_loop.            *)
(*                                                                         *)
(* Conventions.                                                            *)
(*  - A Python dict is a sequence of its keys (or of <<key, value>> pairs) *)
(*    in insertion order, since the code relies on that order (zip).       *)
(*  - None is the record None; a call that has not returned is Pending.    *)
(*  - Float scores are exact rationals kept as integer numerators over a   *)
(*    fixed denominator that is named next to each definition.             *)
(*  - An uncaught exception ends validation_loop: pc = "terminated" and    *)
(*    error names the exception.                                           *)
(***************************************************************************)
EXTENDS Integers, Sequences, FiniteSets, TLC

(***************************************************************************)
(* Bounds of the model                                                     *)
(***************************************************************************)
MaxPeers == 2          \* peer ids are 1..MaxPeers
MaxAllowedWeights == 2 \* settings.max_allowed_weights ranges over 0..this
MaxHandlers == 2       \* miner requests handled at the same time
MaxTicks == 2          \* seconds the miner's wall clock advances
MaxRuns == 3           \* passes of sync_token_pairs started
MaxBatch == 2          \* token pairs in one add_token_pairs call
MaxRows == 4           \* rows of token_pairs when add_token_pairs is explored alone
MaxEvents == 2         \* elements of the data list of a bulk response
MaxMessages == 2       \* bulk responses sent
MaxServed == 2         \* endpoint calls served by the miner
MaxSteps == 2          \* steps of a price series (12 * 24 - 6 and 12 * 24 in the code)

(***************************************************************************)
(* Program constants                                                       *)
(***************************************************************************)
DAY_SECONDS == 86400
START_TIMESTAMP == 1620086400
ANSWER_CHECK_COUNT == 10

Peers == 1..MaxPeers

None == [status |-> "None"]
Pending == [status |-> "pending"]

Min(a, b) == IF a <= b THEN a ELSE b
Max(a, b) == IF a >= b THEN a ELSE b
Range(s) == {s[i] : i \in 1..Len(s)}

\* sequences over S without repetition, of length 0..Cardinality(S)
InjectiveSeqs(S) ==
    UNION {{s \in [1..n -> S] : \A i, j \in 1..n : i # j => s[i] # s[j]} :
           n \in 0..Cardinality(S)}

\* the peer directories explored: the ledger lists the registered peers by
\* ascending id, any subset of them having a usable address
Directories ==
    {s \in InjectiveSeqs(Peers) : \A i, j \in 1..Len(s) : i < j => s[i] < s[j]}

VARIABLES
    pc,                          \* position of validation_loop / validate_step
    error,                       \* exception that ended the loop, or "none"
    modules_info,                \* peer directory of this cycle (key order)
    calls,                       \* calls dispatched by the running round
    outcome,                     \* what happened on the wire, per call
    answers,                     \* result of _get_miner_prediction, per call
    requests,                    \* <<round, peer>> of every call issued this cycle
    health_data,
    health_score,
    valid_miner_infos,
    pool_event_check_synapses,
    pool_events,
    accuracy,                    \* raw spot-check result per scored peer
    accuracy_score,              \* transformed accuracy per scored peer
    pool_events_score,
    signal_event_synapses,
    signal_events,
    signal_events_score,
    max_allowed_weights,         \* settings.max_allowed_weights
    score_dict,                  \* score map handed to set_weights
    cut_scores,                  \* set_weights: the map after the cut
    weighted_scores,             \* set_weights: the non-zero integer weights
    votes,                       \* client.vote calls that reached the ledger
    wall,                        \* miner: datetime.now().timestamp()
    index,                       \* pair-creation events the external index holds
    token_pairs_table,           \* rows of the token_pairs table, by id
    timetable,                   \* rows of the timetable table
    last_synced_time,            \* Miner.last_synced_time
    mpc,                         \* position of each handler in sync_token_pairs
    now,                         \* sync_token_pairs: now, per handler
    token_pairs,                 \* sync_token_pairs: token_pairs, per handler
    run_start,                   \* start of the range the handler fetched
    fresh,                       \* the fetch saw an event newer than the cursor
    overlapped,                  \* another handler ran during this pass
    runs,                        \* the passes that ended, in order
    modules_keys,                \* client.query_map_key: <<id, key>>, by id
    modules_adresses,            \* client.query_map_address: <<id, address>>
    modules_values,              \* modules_info.values(): <<<<ip, port>>, key>>
    served                       \* miner: the endpoint calls that ended, in order

vars == <<pc, error, modules_info, calls, outcome, answers, requests,
          health_data, health_score, valid_miner_infos,
          pool_event_check_synapses, pool_events, accuracy, accuracy_score,
          pool_events_score, signal_event_synapses, signal_events,
          signal_events_score, max_allowed_weights, score_dict, cut_scores,
          weighted_scores, votes, wall, index, token_pairs_table, timetable,
          last_synced_time, mpc, now, token_pairs, run_start, fresh, overlapped,
          runs, modules_keys, modules_adresses, modules_values, served>>

registryVars == <<modules_keys, modules_adresses, modules_values>>

serverVars == <<served>>

validatorVars == <<pc, error, modules_info, calls, outcome, answers, requests,
                   health_data, health_score, valid_miner_infos,
                   pool_event_check_synapses, pool_events, accuracy,
                   accuracy_score, pool_events_score, signal_event_synapses,
                   signal_events, signal_events_score, max_allowed_weights,
                   score_dict, cut_scores, weighted_scores, votes,
                   modules_keys, modules_adresses, modules_values>>

minerVars == <<wall, index, token_pairs_table, timetable, last_synced_time,
               mpc, now, token_pairs, run_start, fresh, overlapped, runs>>

cycleVars == <<modules_info, calls, outcome, answers, requests,
               health_data, health_score, valid_miner_infos,
               pool_event_check_synapses, pool_events, accuracy, accuracy_score,
               pool_events_score, signal_event_synapses, signal_events,
               signal_events_score>>

weightVars == <<max_allowed_weights, score_dict, cut_scores, weighted_scores,
                votes>>

(***************************************************************************)
(* Inputs: what a peer can put on the wire, and the clock                  *)
(***************************************************************************)
\* time_completed values a peer may report (one lies before START_TIMESTAMP)
HealthTimes == {START_TIMESTAMP - DAY_SECONDS, START_TIMESTAMP,
                START_TIMESTAMP + DAY_SECONDS}
\* pool_addresses lists a peer may report
PoolAddressLists == {<<>>, <<"A">>}
\* datetime.today().timestamp() when the health round is scored
Clock == {START_TIMESTAMP + 10 * DAY_SECONDS}
\* wall-clock seconds a call may take
ElapsedTimes == {1, 2}

\* utils.protocols.class_dict: the response classes the validator imports
class_dict == {"HealthCheckResponse", "PoolEventResponse",
               "SignalEventResponse", "PredictionResponse"}

\* class_name of the request of each round, and of the response it expects
RequestClass(round) ==
    CASE round = "health" -> "HealthCheckSynapse"
      [] round = "pool_event" -> "PoolEventSynapse"
      [] round = "signal" -> "SignalEventSynapse"
ResponseClass(round) ==
    CASE round = "health" -> "HealthCheckResponse"
      [] round = "pool_event" -> "PoolEventResponse"
      [] round = "signal" -> "SignalEventResponse"

\* the authoritative chain: events_at_block and block_range_for
ChainEvents == {[pool_address |-> "A", block_number |-> 1, transaction_hash |-> "t1"],
                [pool_address |-> "B", block_number |-> 2, transaction_hash |-> "t2"],
                [pool_address |-> "A", block_number |-> 3, transaction_hash |-> "t3"]}
\* uniswap_fetcher_rs.get_block_number_range: two blocks per day
get_block_number_range(start_datetime, end_datetime) ==
    LET d == (start_datetime - START_TIMESTAMP) \div DAY_SECONDS
    IN  <<2 * d + 1, 2 * d + 2>>
\* uniswap_fetcher_rs.get_pool_events_by_pool_addresses([pool], b, b)
get_pool_events_by_pool_addresses(pool_address, from_block, to_block) ==
    {e \in ChainEvents : /\ e.pool_address = pool_address
                         /\ e.block_number >= from_block
                         /\ e.block_number <= to_block}

\* one claimed record of a PoolEventResponse
Rec(has_block, block_number, transaction_hash) ==
    [has_block |-> has_block, block_number |-> block_number,
     transaction_hash |-> transaction_hash]
\* data payloads of a PoolEventResponse: None, or a list of records
PoolEventData ==
    {[is_none |-> TRUE, records |-> <<>>],
     [is_none |-> FALSE, records |-> <<>>],
     [is_none |-> FALSE, records |-> <<Rec(TRUE, 1, "t1")>>],
     [is_none |-> FALSE, records |-> <<Rec(TRUE, 1, "t1"), Rec(TRUE, 2, "t2")>>],
     [is_none |-> FALSE, records |-> <<Rec(TRUE, 2, "t9")>>],
     [is_none |-> FALSE, records |-> <<Rec(TRUE, 1, "t1"), Rec(TRUE, 5, "t5")>>],
     [is_none |-> FALSE, records |-> <<Rec(FALSE, 0, "t1")>>]}

Payloads(round) ==
    CASE round = "health" ->
           [time_completed : HealthTimes, pool_addresses : PoolAddressLists]
      [] round = "pool_event" -> PoolEventData
      [] round = "signal" -> {[is_none |-> FALSE]}

\* What can happen to one call of client.call: it raises (timeout, refused
\* connection or transport error) or a JSON text comes back.
WireOutcomes(round) ==
    {[kind |-> k, class_name |-> "", fields_ok |-> FALSE, payload |-> None,
      elapsed |-> 0] : k \in {"timeout", "refused"}}
    \cup {[kind |-> "response", class_name |-> "UnknownResponse",
           fields_ok |-> TRUE, payload |-> None, elapsed |-> 1]}
    \cup {[kind |-> "response", class_name |-> ResponseClass(round),
           fields_ok |-> FALSE, payload |-> None, elapsed |-> 1]}
    \cup {[kind |-> "response", class_name |-> ResponseClass(round),
           fields_ok |-> TRUE, payload |-> p, elapsed |-> t] :
          p \in Payloads(round),
          t \in IF round = "pool_event" THEN ElapsedTimes ELSE {1}}

\* the outcomes after which the peer counts as having answered
Answered(o) == /\ o.kind = "response"
               /\ o.class_name \in class_dict
               /\ o.fields_ok

(***************************************************************************)
(* Concurrent poller                                                       *)
(***************************************************************************)
\* _get_miner_prediction with the response constructed without validation of
\* its fields
_get_miner_prediction_unvalidated(o) ==
    IF o.kind # "response" THEN None
    ELSE IF o.class_name \notin class_dict THEN None
    ELSE [status |-> "ok", data |-> o.payload, process_time |-> o.elapsed]

\* _get_miner_prediction: any exception inside the try block gives None
_get_miner_prediction(o) ==
    IF o.kind # "response" THEN None                \* client.call raised
    ELSE IF o.class_name \notin class_dict THEN None \* KeyError
    ELSE IF ~o.fields_ok THEN None                  \* validation error
    ELSE [status |-> "ok", data |-> o.payload, process_time |-> o.elapsed]

\* Python's zip: as long as the shorter argument
zip(a, b) == [i \in 1..Min(Len(a), Len(b)) |-> <<a[i], b[i]>>]

\* get_miner_answer pairing the requests with the peers in opposite orders
get_miner_answer_calls_crossed(modules, synapses, is_list) ==
    LET syn == IF is_list THEN synapses
               ELSE [i \in 1..Len(modules) |-> synapses]
        n == Min(Len(syn), Len(modules))
    IN  [i \in 1..n |-> [synapse |-> syn[n + 1 - i], peer |-> modules[i]]]

\* get_miner_answer, first half: one shared request is repeated per peer,
\* then list(zip(synapses, modules_info.values()))
get_miner_answer_calls(modules, synapses, is_list) ==
    LET syn == IF is_list THEN synapses
               ELSE [i \in 1..Len(modules) |-> synapses]
        z == zip(syn, modules)
    IN  [i \in 1..Len(z) |-> [synapse |-> z[i][1], peer |-> z[i][2]]]

\* get_miner_answer keeping only the peers that answered
get_miner_answer_result_answered(results) ==
    SelectSeq(results, LAMBDA a : a # None)

\* get_miner_answer, second half: answers = [*it]
get_miner_answer_result(results) == results

AllReturned == \A i \in 1..Len(calls) : outcome[i] # Pending

\* validate_step polling the pool events first: the position of the health
\* round issues pool-event requests
RoundOf_pool_event_first(p) ==
    CASE p = "health_round" -> "pool_event"
      [] p = "pool_event_round" -> "health"
      [] p = "signal_round" -> "signal"

\* the kind of request validate_step hands to get_miner_answer at each round
RoundOf(p) == CASE p = "health_round" -> "health"
                [] p = "pool_event_round" -> "pool_event"
                [] p = "signal_round" -> "signal"

\* one worker of the thread pool runs _get_miner_prediction for call i
Call(i) ==
    /\ pc \in {"health_round", "pool_event_round", "signal_round"}
    /\ i \in 1..Len(calls)
    /\ outcome[i] = Pending
    /\ \E o \in WireOutcomes(RoundOf(pc)) :
          /\ outcome' = [outcome EXCEPT ![i] = o]
          /\ answers' = [answers EXCEPT ![i] = _get_miner_prediction(o)]
    /\ requests' = requests \cup {<<RoundOf(pc), calls[i].peer>>}
    /\ UNCHANGED <<pc, error, modules_info, calls, health_data,
                   health_score, valid_miner_infos, pool_event_check_synapses,
                   pool_events, accuracy, accuracy_score, pool_events_score,
                   signal_event_synapses, signal_events, signal_events_score>>
    /\ UNCHANGED weightVars
    /\ UNCHANGED minerVars
    /\ UNCHANGED serverVars
    /\ UNCHANGED registryVars

(***************************************************************************)
(* Health round                                                            *)
(***************************************************************************)
\* indices of the entries of a result list that are not None
AnsweredIdx(results) == {i \in 1..Len(results) : results[i] # None}

SetMax(S) == CHOOSE x \in S : \A y \in S : y <= x
SetMin(S) == CHOOSE x \in S : \A y \in S : x <= y

\* whole days of a timestamp; the reported times are whole days
Day(t) == t \div DAY_SECONDS

\* the health score without the amount term
HealthScore_recency_only(tc, mx, today) ==
    [num |-> 4 * Day(mx) * Max(0, 10 + Day(tc) - Day(today)),
     den |-> 100 * Day(mx)]

\* score_health_check for one peer, as the fraction num / den:
\*   0.6 * tc / mx + 0.4 * max(0, (10 * DAY + tc - today) / DAY / 10)
HealthScore(tc, mx, today) ==
    [num |-> 60 * Day(tc) + 4 * Day(mx) * Max(0, 10 + Day(tc) - Day(today)),
     den |-> 100 * Day(mx)]

\* score_health_check: a score for every peer whose answer is not None
score_health_check(keys, results, today) ==
    LET valid == AnsweredIdx(results)
        mx == SetMax({results[i].data.time_completed : i \in valid})
    IN  [k \in {keys[i] : i \in valid} |->
            LET i == CHOOSE j \in valid : keys[j] = k
            IN  HealthScore(results[i].data.time_completed, mx, today)]

\* valid_miner_infos taken to be the whole directory
valid_miner_infos_of_all(modules, hs) == modules

\* the early return of validate_step left out
NoValidMiners_never(valid) == FALSE

\* valid_miner_infos = {key: modules_info[key] for key in health_score}:
\* the scored peers, in directory order
valid_miner_infos_of(modules, hs) == SelectSeq(modules, LAMBDA k : k \in DOMAIN hs)

\* if len(valid_miner_infos) == 0: log('No valid miners'); return
NoValidMiners(valid) == Len(valid) = 0

(***************************************************************************)
(* Peer discovery                                                          *)
(***************************************************************************)
Digits == {"0", "1", "2", "3", "4", "5", "6", "7", "8", "9"}

\* the addresses a module may have registered, as sequences of characters:
\* "h10.0.0.1:80/" and "10.0.0.1"
ModuleAddresses ==
    {<<"h", "1", "0", ".", "0", ".", "0", ".", "1", ":", "8", "0", "/">>,
     <<"1", "0", ".", "0", ".", "0", ".", "1">>}

\* the last index of the run of digits that starts at from (from - 1 when
\* s[from] is no digit)
RECURSIVE RunEnd(_, _)
RunEnd(s, from) ==
    IF from > Len(s) \/ s[from] \notin Digits THEN from - 1
    ELSE RunEnd(s, from + 1)

IsChar(s, k, c) == k <= Len(s) /\ s[k] = c

\* \d{1,3} at from, followed by the character c: the index of c, or 0
DigitsThen(s, from, c) ==
    LET e == RunEnd(s, from)
    IN  IF from > 0 /\ e >= from /\ e - from + 1 <= 3 /\ IsChar(s, e + 1, c)
        THEN e + 1 ELSE 0

\* the next \d{1,3} and c after the separator at index d, or 0 when the
\* match has already failed
Then(s, d, c) == IF d = 0 THEN 0 ELSE DigitsThen(s, d + 1, c)

\* \d+ after the colon at index c: the index of its last digit, or 0
Port(s, c) ==
    IF c = 0 \/ RunEnd(s, c + 1) < c + 1 THEN 0 ELSE RunEnd(s, c + 1)

\* \d{1,3}\.\d{1,3}\.\d{1,3}\.\d{1,3}:\d+ matched at index i: the index of
\* the last character of the match, or 0
IP_REGEX_match(s, i) ==
    Port(s, Then(s, Then(s, Then(s, DigitsThen(s, i, "."), "."), "."), ":"))

\* extract_address: re.search, the leftmost match, or None
extract_address(s) ==
    LET starts == {i \in 1..Len(s) : IP_REGEX_match(s, i) # 0}
    IN  IF starts = {} THEN None
        ELSE [status |-> "match",
              group0 |-> SubSeq(s, SetMin(starts), IP_REGEX_match(s, SetMin(starts)))]

\* str.split(":") of a text with one colon
Split(g) ==
    LET c == CHOOSE k \in 1..Len(g) : g[k] = ":"
    IN  <<SubSeq(g, 1, c - 1), SubSeq(g, c + 1, Len(g))>>

\* get_ip_port keeping the modules whose address has no ip:port
get_ip_port_unfiltered(addresses) ==
    [i \in 1..Len(addresses) |->
        <<addresses[i][1],
          IF extract_address(addresses[i][2]) = None
          THEN <<addresses[i][2], <<>>>>
          ELSE Split(extract_address(addresses[i][2]).group0)>>]

\* get_ip_port: <<id, <<ip, port>>>> for the addresses with a match
get_ip_port(addresses) ==
    LET filtered == SelectSeq(addresses, LAMBDA e : extract_address(e[2]) # None)
    IN  [i \in 1..Len(filtered) |->
            <<filtered[i][1], Split(extract_address(filtered[i][2]).group0)>>]

\* the validator's own identity
val_ss58 == <<"val", 0>>

\* the identity key registered for module id
Ss58Address(id) == IF id = 0 THEN val_ss58 ELSE <<"key", id>>

\* dict.get on a list of <<key, value>> pairs
Get(pairs, key) ==
    IF \E i \in 1..Len(pairs) : pairs[i][1] = key
    THEN [status |-> "ok",
          value |-> pairs[CHOOSE i \in 1..Len(pairs) : pairs[i][1] = key][2]]
    ELSE None

\* retrieve_miner_information: raises when the validator's key is not
\* registered; else one entry <<id, <<<<ip, port>>, key>>>> per registered
\* module with an ip:port, in the order of modules_keys
retrieve_miner_information(keys, addresses) ==
    LET modules_filtered_address == get_ip_port(addresses)
        usable == SelectSeq(keys, LAMBDA e : Get(modules_filtered_address, e[1]) # None)
    IN  [raises |-> \A i \in 1..Len(keys) : keys[i][2] # val_ss58,
         modules_info |->
             [i \in 1..Len(usable) |->
                 <<usable[i][1],
                   <<Get(modules_filtered_address, usable[i][1]).value, usable[i][2]>>>>]]

\* the dicts of a subset of the ids, by ascending id
RECURSIVE DictsOver(_, _)
DictsOver(ids, values) ==
    IF ids = {} THEN {<<>>}
    ELSE LET id == SetMax(ids)
         IN  UNION {{d, Append(d, <<id, v>>)} : d \in DictsOver(ids \ {id}, values), v \in values}

\* what the ledger may hold: the validator (module 0) registered or not and
\* without an address, every peer registered or not, with or without one of
\* the addresses
KeyMaps ==
    {k \in DictsOver({0} \cup Peers, {Ss58Address(id) : id \in {0} \cup Peers}) :
        \A i \in 1..Len(k) : k[i][2] = Ss58Address(k[i][1])}
AddressMaps == DictsOver(Peers, ModuleAddresses)

(***************************************************************************)
(* Request generation                                                      *)
(***************************************************************************)
\* the answered entries of health_data, in order
RECURSIVE Healthy(_)
Healthy(results) ==
    IF Len(results) = 0 THEN <<>>
    ELSE (IF Head(results) # None THEN <<Head(results).data>> ELSE <<>>)
         \o Healthy(Tail(results))

\* the requests get_pool_event_synapses can draw for one health response;
\* empty when random.randint(0, days) or random.choice(pool_addresses) raises
PoolEventSynapsesFor(miner_data) ==
    LET days == (miner_data.time_completed - START_TIMESTAMP) \div DAY_SECONDS
    IN  {[pool_address |-> miner_data.pool_addresses[a],
          start_datetime |-> random_pick * DAY_SECONDS + START_TIMESTAMP,
          end_datetime |-> random_pick * DAY_SECONDS + START_TIMESTAMP + DAY_SECONDS] :
         random_pick \in 0..days, a \in 1..Len(miner_data.pool_addresses)}

\* the requests get_signal_event_synapse can draw for one health response
\* (of the picks 0..days only the first is explored)
SignalEventSynapsesFor(miner_data) ==
    LET days == (miner_data.time_completed - START_TIMESTAMP) \div 300
    IN  {[pool_address |-> miner_data.pool_addresses[a],
          timestamp |-> random_pick * 300 + START_TIMESTAMP] :
         random_pick \in {d \in {0} : d <= days},
         a \in 1..Len(miner_data.pool_addresses)}

\* all request lists: one request per answered health entry, in order
get_pool_event_synapses(results) ==
    LET h == Healthy(results)
    IN  {s \in [1..Len(h) -> UNION {PoolEventSynapsesFor(h[i]) : i \in 1..Len(h)}] :
            \A i \in 1..Len(h) : s[i] \in PoolEventSynapsesFor(h[i])}
get_signal_event_synapse(results) ==
    LET h == Healthy(results)
    IN  {s \in [1..Len(h) -> UNION {SignalEventSynapsesFor(h[i]) : i \in 1..Len(h)}] :
            \A i \in 1..Len(h) : s[i] \in SignalEventSynapsesFor(h[i])}

\* get_pool_event_synapses raises for some health response
PoolSynapsesRaise(results) ==
    \E i \in 1..Len(Healthy(results)) : PoolEventSynapsesFor(Healthy(results)[i]) = {}
SignalSynapsesRaise(results) ==
    \E i \in 1..Len(Healthy(results)) : SignalEventSynapsesFor(Healthy(results)[i]) = {}

(***************************************************************************)
(* Pool-event spot-check                                                   *)
(***************************************************************************)
\* a result of check_miner_answer_pool_event: False, or correct_count / 10
RawFalse == [is_false |-> TRUE, correct_count |-> 0]
Raw(c) == [is_false |-> FALSE, correct_count |-> c]

\* a trial that counts a record outside the block range as a miss and goes on
Trial_lenient(miner_prompt, block_data, correct_count) ==
    LET block_number == block_data.block_number
        block_data_from_pools ==
            get_pool_events_by_pool_addresses(miner_prompt.pool_address,
                                              block_number, block_number)
        okay == IF \E e \in block_data_from_pools :
                      e.transaction_hash = block_data.transaction_hash
                THEN 1 ELSE 0
    IN  IF ~block_data.has_block THEN [is_false |-> FALSE, correct_count |-> correct_count]
        ELSE [is_false |-> FALSE, correct_count |-> correct_count + okay]

\* one trial on the record block_data: the running count after it, or False
Trial(miner_prompt, block_data, correct_count) ==
    LET range == get_block_number_range(miner_prompt.start_datetime,
                                        miner_prompt.end_datetime)
        block_number == block_data.block_number
        block_data_from_pools ==
            get_pool_events_by_pool_addresses(miner_prompt.pool_address,
                                              block_number, block_number)
        okay == IF \E e \in block_data_from_pools :
                      e.transaction_hash = block_data.transaction_hash
                THEN 1 ELSE 0
    IN  IF ~block_data.has_block THEN RawFalse
        ELSE IF block_number < range[1] \/ block_number > range[2] THEN RawFalse
        ELSE Raw(correct_count + okay)

\* the states the loop of check_miner_answer_pool_event can be in after n
\* trials, each trial drawing any record (random.choice); empty when
\* random.choice raises on an empty list
RECURSIVE Trials(_, _, _)
Trials(miner_prompt, records, n) ==
    IF n = 0 THEN {Raw(0)}
    ELSE UNION {IF r.is_false THEN {r}
                ELSE {Trial(miner_prompt, records[j], r.correct_count) :
                      j \in 1..Len(records)} :
                r \in Trials(miner_prompt, records, n - 1)}

\* check_miner_answer_pool_event: every value it can return
check_miner_answer_pool_event(miner_prompt, miner_answer) ==
    IF miner_answer.is_none THEN {RawFalse}
    ELSE Trials(miner_prompt, miner_answer.records, ANSWER_CHECK_COUNT)

AccuracyDen == 125

\* the transform with an even power
AccuracyTransform_square(raw) ==
    LET a10 == IF raw.is_false THEN 0 ELSE raw.correct_count
        x == 2 * a10 - 15
    IN  5 * x * x

\* ((accuracy_score - 0.75) * 4) ** 3 as a numerator over AccuracyDen;
\* False counts as 0 in the subtraction
AccuracyTransform(raw) ==
    LET a10 == IF raw.is_false THEN 0 ELSE raw.correct_count
        x == 2 * a10 - 15           \* (a - 0.75) * 4 = x / 5
    IN  x * x * x

\* check_pool_event_accuracy: the response object is never falsy, so the
\* early "return 0" is not taken for an answered peer
\* the transform without the shift by 0.75: (accuracy_score * 4) ** 3
check_pool_event_accuracy_unshifted(raw) ==
    LET a10 == IF raw.is_false THEN 0 ELSE raw.correct_count
    IN  8 * a10 * a10 * a10

check_pool_event_accuracy(raw) == AccuracyTransform(raw)

\* 1 - 0.5 * (process_time - min_time) / (max_time - min_time + EPS), as a
\* numerator over 250 (EPS = 1e-10 only keeps the division defined)
ProcessTimeScore(process_time, min_time, max_time) ==
    IF max_time = min_time THEN 250
    ELSE 250 - (125 * (process_time - min_time)) \div (max_time - min_time)

\* score_pool_events, after the loop: the per-peer overall score
\* (accuracy + process_time_score) / 2 as a fraction over PoolScoreDen
PoolScoreDen == 500
score_pool_events(keys, results, acc_score) ==
    LET A == AnsweredIdx(results)
        times == {results[i].process_time : i \in A}
    IN  IF A = {} THEN <<>>
        ELSE [k \in {keys[i] : i \in A} |->
                LET i == CHOOSE j \in A : keys[j] = k
                IN  [num |-> 2 * acc_score[k]
                             + ProcessTimeScore(results[i].process_time,
                                                SetMin(times), SetMax(times)),
                     den |-> PoolScoreDen]]

(***************************************************************************)
(* Signal scoring and aggregation                                          *)
(***************************************************************************)
\* score_signal_events: {} when no peer answered the signal round. With an
\* answer it cannot return: get_min_max_deviations unpacks the integer keys
\* of the deviations dict, and the final blend reads accuracy_score, which
\* this method never defines.
score_signal_events(keys, results) ==
    IF AnsweredIdx(results) = {}
    THEN [raises |-> FALSE, value |-> <<>>]
    ELSE [raises |-> TRUE, value |-> <<>>]

\* the dict comprehension of validate_step reads all three maps for every
\* key of modules_info and raises KeyError on the first missing one
AggregateRaises(keys, h, p, sg) ==
    \E i \in 1..Len(keys) :
        keys[i] \notin DOMAIN h \/ keys[i] \notin DOMAIN p \/ keys[i] \notin DOMAIN sg

\* health * 0.3 + pool_events * 0.3 + signal_events * 0.4, as a numerator
\* over 10 * h.den * p.den * sg.den
Blend(h, p, sg) ==
    3 * h.num * p.den * sg.den + 3 * p.num * h.den * sg.den
    + 4 * sg.num * h.den * p.den

Aggregate(keys, h, p, sg) ==
    [i \in 1..Len(keys) |-> <<keys[i], Blend(h[keys[i]], p[keys[i]], sg[keys[i]])>>]

(***************************************************************************)
(* Weight submitter                                                        *)
(***************************************************************************)
\* place x behind every entry whose score is >= its own (stable, descending)
RECURSIVE InsertDesc(_, _)
InsertDesc(x, sorted) ==
    IF Len(sorted) = 0 THEN <<x>>
    ELSE IF Head(sorted)[2] >= x[2] THEN <<Head(sorted)>> \o InsertDesc(x, Tail(sorted))
    ELSE <<x>> \o sorted

\* sorted(score_dict.items(), key=lambda x: x[1], reverse=True)
RECURSIVE SortedScores(_)
SortedScores(items) ==
    IF Len(items) = 0 THEN <<>>
    ELSE InsertDesc(items[Len(items)], SortedScores(SubSeq(items, 1, Len(items) - 1)))

\* the cut taken from the map in its own order
cut_to_max_allowed_weights_unsorted(items, max_allowed) ==
    SubSeq(items, 1, Min(max_allowed, Len(items)))

\* cut_to_max_allowed_weights: dict(sorted_scores[:max_allowed_weights])
cut_to_max_allowed_weights(items, max_allowed) ==
    LET sorted_scores == SortedScores(items)
    IN  SubSeq(sorted_scores, 1, Min(max_allowed, Len(sorted_scores)))

RECURSIVE SumScores(_)
SumScores(items) ==
    IF Len(items) = 0 THEN 0 ELSE Head(items)[2] + SumScores(Tail(items))

Abs(x) == IF x < 0 THEN -x ELSE x
\* int(a / b): Python's int() truncates towards zero
TruncDiv(a, b) ==
    IF (a >= 0) = (b > 0) THEN Abs(a) \div Abs(b) ELSE -(Abs(a) \div Abs(b))

\* weight = int(score * 1000 / scores)
Weight(score, scores) == TruncDiv(score * 1000, scores)

\* the weighted_scores of set_weights without the zero weights
WeightedScores(cut) ==
    LET scores == SumScores(cut)
        all == [i \in 1..Len(cut) |-> <<cut[i][1], Weight(cut[i][2], scores)>>]
    IN  SelectSeq(all, LAMBDA kv : kv[2] # 0)

(***************************************************************************)
(* Miner: the relational store (src/db/db_manager.py)                      *)
(***************************************************************************)
\* the pair-creation events of the chain: the token_pair dicts that
\* get_pool_created_events_between_two_timestamps returns, with the
\* timestamp of their block (seconds after START_TIMESTAMP)
TokenPair(token0, token1, fee, pool, block_number, timestamp) ==
    [token0 |-> token0, token1 |-> token1, fee |-> fee, pool |-> pool,
     block_number |-> block_number, timestamp |-> timestamp]
PoolCreatedEvents ==
    {TokenPair("a", "b", 500, "P1", 1, START_TIMESTAMP + 1),
     TokenPair("a", "b", 3000, "P2", 2, START_TIMESTAMP + 2),
     TokenPair("a", "c", 500, "P3", 3, START_TIMESTAMP + 3)}

\* a row of the token_pairs table; id is the autoincrement primary key
Tokenpairstable(id, token_pair) ==
    [id |-> id, token0 |-> token_pair.token0, token1 |-> token_pair.token1,
     fee |-> token_pair.fee, pool |-> token_pair.pool,
     block_number |-> token_pair.block_number, completed |-> FALSE]

\* the natural key of a row or of a token_pair dict
NaturalKey(r) == <<r.token0, r.token1, r.fee>>

\* DBManager.add_token_pairs: session.add_all(insert_values); commit. One row
\* per element of the batch; the table has no key besides id.
add_token_pairs(table, batch) ==
    table \o [i \in 1..Len(batch) |-> Tokenpairstable(Len(table) + i, batch[i])]

\* a row of the timetable table
Timetable(start, end, completed) ==
    [start |-> start, end |-> end, completed |-> completed]

\* the end of the most recently completed window, or None
lastSyncedTimestamp(windows) ==
    LET done == {i \in 1..Len(windows) : windows[i].completed}
    IN  IF done = {} THEN None
        ELSE [status |-> "ok",
              end |-> windows[CHOOSE i \in done :
                                 \A j \in done : windows[j].start <= windows[i].start].end]

\* the window of a finished pass, recorded as completed
mark_window_completed(windows, start, end) ==
    Append(windows, Timetable(start, end, TRUE))

(***************************************************************************)
(* Miner: sync_token_pairs (src/src/miner/miner.py)                        *)
(***************************************************************************)
SafetyMargin == 12

Handlers == 1..MaxHandlers

\* the events that can reach the external index within the explored time
IndexableEvents ==
    {e \in PoolCreatedEvents : e.timestamp <= START_TIMESTAMP + MaxTicks}

\* a set of events as the list the index returns, by ascending block
RECURSIVE ByBlock(_)
ByBlock(S) ==
    IF S = {} THEN <<>>
    ELSE LET e == CHOOSE x \in S : \A y \in S : x.block_number <= y.block_number
         IN  <<e>> \o ByBlock(S \ {e})

\* uniswap_fetcher_rs.get_pool_created_events_between_two_timestamps: the
\* events of the blocks from the one at start to the one at end, both
\* included (as the block ranges of get_pool_events_by_pool_addresses)
get_pool_created_events_between_two_timestamps(events, start, end) ==
    ByBlock({e \in events : e.timestamp >= start /\ e.timestamp <= end})

Running(t) == mpc[t] # "idle"

\* the record of a pass that ended (returned or raised)
Run(t, ok, inserted) ==
    [thread |-> t, start |-> run_start[t], now |-> now[t], ok |-> ok,
     inserted |-> inserted, alone |-> ~overlapped[t], fresh |-> fresh[t]]

\* sync_token_pairs is left: its locals are gone
SyncReturn(t) ==
    /\ mpc' = [mpc EXCEPT ![t] = "idle"]
    /\ now' = [now EXCEPT ![t] = START_TIMESTAMP]
    /\ token_pairs' = [token_pairs EXCEPT ![t] = <<>>]
    /\ run_start' = [run_start EXCEPT ![t] = START_TIMESTAMP]
    /\ fresh' = [fresh EXCEPT ![t] = FALSE]
    /\ overlapped' = [overlapped EXCEPT ![t] = FALSE]

\* the exception of a step of sync_token_pairs leaves the handler
SyncRaise(t, inserted) ==
    /\ SyncReturn(t)
    /\ runs' = Append(runs, Run(t, FALSE, inserted))
    /\ UNCHANGED last_synced_time

\* Miner.__init__, first half: the cursor is read from the store
Restart ==
    /\ \A t \in Handlers : ~Running(t)
    /\ last_synced_time' = IF lastSyncedTimestamp(timetable) = None
                           THEN START_TIMESTAMP
                           ELSE lastSyncedTimestamp(timetable).end
    /\ UNCHANGED <<wall, index, token_pairs_table, timetable, mpc, now,
                   token_pairs, run_start, fresh, overlapped, runs>>
    /\ UNCHANGED validatorVars
    /\ UNCHANGED serverVars

\* now = int(datetime.now().timestamp() - 12)
SyncBegin(t) ==
    /\ ~Running(t)
    /\ Len(runs) + Cardinality({u \in Handlers : Running(u)}) < MaxRuns
    /\ now' = [now EXCEPT ![t] = wall - SafetyMargin]
    /\ mpc' = [mpc EXCEPT ![t] = "fetch"]
    /\ overlapped' = [u \in Handlers |->
                         IF u = t THEN \E v \in Handlers : Running(v)
                         ELSE IF Running(u) THEN TRUE ELSE overlapped[u]]
    /\ UNCHANGED <<wall, index, token_pairs_table, timetable,
                   last_synced_time, token_pairs, run_start, fresh, runs>>
    /\ UNCHANGED validatorVars
    /\ UNCHANGED serverVars

\* token_pairs = get_pool_created_events_between_two_timestamps(
\*                   self.last_synced_time, now)
Fetch(t) ==
    /\ mpc[t] = "fetch"
    /\ token_pairs' = [token_pairs EXCEPT ![t] =
           get_pool_created_events_between_two_timestamps(
               index, last_synced_time, now[t])]
    /\ run_start' = [run_start EXCEPT ![t] = last_synced_time]
    /\ fresh' = [fresh EXCEPT ![t] = \E e \in index : e.timestamp > last_synced_time]
    /\ mpc' = [mpc EXCEPT ![t] = "insert"]
    /\ UNCHANGED <<wall, index, token_pairs_table, timetable,
                   last_synced_time, now, overlapped, runs>>
    /\ UNCHANGED validatorVars
    /\ UNCHANGED serverVars

\* the external index raises
FetchRaises(t) ==
    /\ mpc[t] = "fetch"
    /\ SyncReturn(t)
    /\ runs' = Append(runs, [Run(t, FALSE, 0) EXCEPT !.start = last_synced_time])
    /\ UNCHANGED last_synced_time
    /\ UNCHANGED <<wall, index, token_pairs_table, timetable>>
    /\ UNCHANGED validatorVars
    /\ UNCHANGED serverVars

\* the cursor moved although add_token_pairs raised
AddTokenPairsRaises_advances(t) ==
    /\ mpc[t] \in {"insert", "mark"}
    /\ SyncReturn(t)
    /\ runs' = Append(runs, Run(t, FALSE, IF mpc[t] = "mark" THEN Len(token_pairs[t]) ELSE 0))
    /\ last_synced_time' = now[t]
    /\ UNCHANGED <<wall, index, token_pairs_table, timetable>>
    /\ UNCHANGED validatorVars
    /\ UNCHANGED serverVars

\* self.db_manager.add_token_pairs(token_pairs, now) raises: before the rows
\* are committed, or after them while the window is recorded
AddTokenPairsRaises(t) ==
    /\ mpc[t] \in {"insert", "mark"}
    /\ SyncRaise(t, IF mpc[t] = "mark" THEN Len(token_pairs[t]) ELSE 0)
    /\ UNCHANGED <<wall, index, token_pairs_table, timetable>>
    /\ UNCHANGED validatorVars
    /\ UNCHANGED serverVars

\* add_token_pairs, the rows: one commit for the whole batch
AddTokenPairsInsert(t) ==
    /\ mpc[t] = "insert"
    /\ token_pairs_table' = add_token_pairs(token_pairs_table, token_pairs[t])
    /\ mpc' = [mpc EXCEPT ![t] = "mark"]
    /\ UNCHANGED <<wall, index, timetable, last_synced_time, now, token_pairs,
                   run_start, fresh, overlapped, runs>>
    /\ UNCHANGED validatorVars
    /\ UNCHANGED serverVars

\* add_token_pairs, the window: recorded as completed after the rows
AddTokenPairsMark(t) ==
    /\ mpc[t] = "mark"
    /\ timetable' = mark_window_completed(timetable, run_start[t], now[t])
    /\ mpc' = [mpc EXCEPT ![t] = "assign"]
    /\ UNCHANGED <<wall, index, token_pairs_table, last_synced_time, now,
                   token_pairs, run_start, fresh, overlapped, runs>>
    /\ UNCHANGED validatorVars
    /\ UNCHANGED serverVars

\* self.last_synced_time = now
Assign(t) ==
    /\ mpc[t] = "assign"
    /\ last_synced_time' = now[t]
    /\ SyncReturn(t)
    /\ runs' = Append(runs, Run(t, TRUE, Len(token_pairs[t])))
    /\ UNCHANGED <<wall, index, token_pairs_table, timetable>>
    /\ UNCHANGED validatorVars
    /\ UNCHANGED serverVars

\* the wall clock advances by a second
Tick ==
    /\ wall < START_TIMESTAMP + SafetyMargin + MaxTicks
    /\ wall' = wall + 1
    /\ UNCHANGED <<index, token_pairs_table, timetable, last_synced_time, mpc,
                   now, token_pairs, run_start, fresh, overlapped, runs>>
    /\ UNCHANGED validatorVars
    /\ UNCHANGED serverVars

\* a pair-creation event of a mined block reaches the external index
IndexEvent(e) ==
    /\ e \notin index
    /\ e.timestamp <= wall
    /\ index' = index \cup {e}
    /\ UNCHANGED <<wall, token_pairs_table, timetable, last_synced_time, mpc,
                   now, token_pairs, run_start, fresh, overlapped, runs>>
    /\ UNCHANGED validatorVars
    /\ UNCHANGED serverVars

\* the miner process before its first sync, the store empty
MinerInit ==
    /\ wall = START_TIMESTAMP + SafetyMargin
    /\ index = {}
    /\ token_pairs_table = <<>>
    /\ timetable = <<>>
    /\ last_synced_time = START_TIMESTAMP
    /\ mpc = [t \in Handlers |-> "idle"]
    /\ now = [t \in Handlers |-> START_TIMESTAMP]
    /\ token_pairs = [t \in Handlers |-> <<>>]
    /\ run_start = [t \in Handlers |-> START_TIMESTAMP]
    /\ fresh = [t \in Handlers |-> FALSE]
    /\ overlapped = [t \in Handlers |-> FALSE]
    /\ runs = <<>>
    /\ served = <<>>

(***************************************************************************)
(* validation_loop and validate_step                                       *)
(***************************************************************************)
PendingList(n) == [i \in 1..n |-> Pending]

\* the locals of a validate_step call before its first statement
FreshCycle ==
    /\ modules_info = <<>>
    /\ calls = <<>>
    /\ outcome = <<>>
    /\ answers = <<>>
    /\ requests = {}
    /\ health_data = <<>>
    /\ health_score = <<>>
    /\ valid_miner_infos = <<>>
    /\ pool_event_check_synapses = <<>>
    /\ pool_events = <<>>
    /\ accuracy = <<>>
    /\ accuracy_score = <<>>
    /\ pool_events_score = <<>>
    /\ signal_event_synapses = <<>>
    /\ signal_events = <<>>
    /\ signal_events_score = <<>>

\* the validator after construction
ValidatorInit ==
    /\ modules_keys = <<>>
    /\ modules_adresses = <<>>
    /\ modules_values = <<>>
    /\ pc = "idle"
    /\ error = "none"
    /\ FreshCycle
    /\ max_allowed_weights = MaxAllowedWeights
    /\ score_dict = <<>>
    /\ cut_scores = <<>>
    /\ weighted_scores = <<>>
    /\ votes = <<>>

Init ==
    /\ ValidatorInit
    /\ MinerInit

\* an exception leaves validate_step, asyncio.run and validation_loop
Raise(name) ==
    /\ pc' = "terminated"
    /\ error' = name

\* get_miner_answer dispatches one call per (synapse, peer) pair
Dispatch(round_pc, modules, synapses, is_list) ==
    LET cs == get_miner_answer_calls(modules, synapses, is_list)
    IN  /\ calls' = cs
        /\ outcome' = PendingList(Len(cs))
        /\ answers' = PendingList(Len(cs))
        /\ pc' = round_pc

\* validation_loop starts validate_step: retrieve_miner_information, then
\* the health round is dispatched
ValidateStepBegin ==
    /\ pc = "idle"
    /\ requests' = {}
    /\ health_data' = <<>>
    /\ health_score' = <<>>
    /\ valid_miner_infos' = <<>>
    /\ pool_event_check_synapses' = <<>>
    /\ pool_events' = <<>>
    /\ accuracy' = <<>>
    /\ accuracy_score' = <<>>
    /\ pool_events_score' = <<>>
    /\ signal_event_synapses' = <<>>
    /\ signal_events' = <<>>
    /\ signal_events_score' = <<>>
    /\ \E keys \in KeyMaps, addresses \in AddressMaps :
          LET found == retrieve_miner_information(keys, addresses)
              dir == [i \in 1..Len(found.modules_info) |-> found.modules_info[i][1]]
          IN  /\ modules_keys' = keys
              /\ modules_adresses' = addresses
              /\ IF found.raises
                 THEN \* the validator's key is not registered in the subnet
                      /\ Raise("RuntimeError")
                      /\ modules_info' = <<>>
                      /\ modules_values' = <<>>
                      /\ calls' = <<>>
                      /\ outcome' = <<>>
                      /\ answers' = <<>>
                 ELSE /\ modules_info' = dir
                      /\ modules_values' =
                             [i \in 1..Len(dir) |-> found.modules_info[i][2]]
                      /\ IF Len(dir) = 0
                         THEN \* get_miner_answer returns None; zip(keys, None) raises
                              /\ Raise("TypeError")
                              /\ calls' = <<>>
                              /\ outcome' = <<>>
                              /\ answers' = <<>>
                         ELSE /\ Dispatch("health_round", dir,
                                          [class_name |-> RequestClass("health")], FALSE)
                              /\ UNCHANGED error
    /\ UNCHANGED weightVars
    /\ UNCHANGED minerVars
    /\ UNCHANGED serverVars

\* the health round has joined: score_health_check, valid_miner_infos, the
\* early return, get_pool_event_synapses and the dispatch of the next round
HealthRoundDone ==
    /\ pc = "health_round"
    /\ AllReturned
    /\ \E today \in Clock :
       LET hd == get_miner_answer_result(answers)
           hs == score_health_check(modules_info, hd, today)
           valid == valid_miner_infos_of(modules_info, hs)
       IN  /\ health_data' = hd
           /\ health_score' = hs
           /\ valid_miner_infos' = valid
           /\ \/ /\ NoValidMiners(valid)        \* return
                 /\ pc' = "sleep"
                 /\ UNCHANGED <<error, calls, outcome, answers,
                                pool_event_check_synapses>>
              \/ /\ ~NoValidMiners(valid)
                 /\ PoolSynapsesRaise(hd)
                 /\ Raise("get_pool_event_synapses")
                 /\ UNCHANGED <<calls, outcome, answers, pool_event_check_synapses>>
              \/ /\ ~NoValidMiners(valid)
                 /\ ~PoolSynapsesRaise(hd)
                 /\ \E syn \in get_pool_event_synapses(hd) :
                       /\ pool_event_check_synapses' = syn
                       /\ Dispatch("pool_event_round", valid, syn, TRUE)
                 /\ UNCHANGED error
    /\ UNCHANGED <<modules_info, requests, pool_events, accuracy,
                   accuracy_score, pool_events_score, signal_event_synapses,
                   signal_events, signal_events_score>>
    /\ UNCHANGED weightVars
    /\ UNCHANGED minerVars
    /\ UNCHANGED serverVars
    /\ UNCHANGED registryVars

RawResults == {RawFalse} \cup {Raw(c) : c \in 0..ANSWER_CHECK_COUNT}

\* the pool-event round has joined: score_pool_events (spot-check of every
\* answered peer), get_signal_event_synapse and the dispatch of the signal round
PoolEventRoundDone ==
    /\ pc = "pool_event_round"
    /\ AllReturned
    /\ LET pe == get_miner_answer_result(answers)
           z == zip(pool_event_check_synapses, zip(valid_miner_infos, pe))
           A == {i \in 1..Len(z) : z[i][2][2] # None}
           Possible(i) == check_miner_answer_pool_event(z[i][1], z[i][2][2].data)
       IN  /\ pool_events' = pe
           /\ \/ \* random.choice on an empty record list: IndexError
                 /\ \E i \in A : Possible(i) = {}
                 /\ Raise("IndexError")
                 /\ UNCHANGED <<accuracy, accuracy_score, pool_events_score,
                                signal_event_synapses, calls, outcome, answers>>
              \/ \* get_block_number_range or get_pool_events_by_pool_addresses
                 \* raises while an answered peer is spot-checked
                 /\ A # {}
                 /\ Raise("uniswap_fetcher_rs")
                 /\ UNCHANGED <<accuracy, accuracy_score, pool_events_score,
                                signal_event_synapses, calls, outcome, answers>>
              \/ /\ \A i \in A : Possible(i) # {}
                 /\ \E raw \in [A -> RawResults] :
                       /\ \A i \in A : raw[i] \in Possible(i)
                       /\ LET key(i) == z[i][2][1]
                              idx(k) == CHOOSE i \in A : key(i) = k
                              acc == [k \in {key(i) : i \in A} |->
                                         check_pool_event_accuracy(raw[idx(k)])]
                          IN  /\ accuracy' = [k \in {key(i) : i \in A} |-> raw[idx(k)]]
                              /\ accuracy_score' = acc
                              /\ pool_events_score' =
                                     score_pool_events(valid_miner_infos, pe, acc)
                 /\ \/ \* random.randint(0, days) with a float bound
                       /\ Raise("get_signal_event_synapse")
                       /\ UNCHANGED <<signal_event_synapses, calls, outcome, answers>>
                    \/ /\ ~SignalSynapsesRaise(health_data)
                       /\ \E syn \in get_signal_event_synapse(health_data) :
                             /\ signal_event_synapses' = syn
                             /\ Dispatch("signal_round", valid_miner_infos, syn, TRUE)
                       /\ UNCHANGED error
    /\ UNCHANGED <<modules_info, requests, health_data, health_score,
                   valid_miner_infos, pool_event_check_synapses, signal_events,
                   signal_events_score>>
    /\ UNCHANGED weightVars
    /\ UNCHANGED minerVars
    /\ UNCHANGED serverVars
    /\ UNCHANGED registryVars

\* the signal round has joined: score_signal_events, then the blend
SignalRoundDone ==
    /\ pc = "signal_round"
    /\ AllReturned
    /\ LET se == get_miner_answer_result(answers)
           sc == score_signal_events(valid_miner_infos, se)
       IN  /\ signal_events' = se
           /\ \/ /\ sc.raises
                 /\ Raise("score_signal_events")
                 /\ UNCHANGED <<signal_events_score, score_dict>>
              \/ /\ ~sc.raises
                 /\ signal_events_score' = sc.value
                 /\ IF AggregateRaises(modules_info, health_score,
                                       pool_events_score, sc.value)
                    THEN /\ Raise("KeyError")
                         /\ UNCHANGED score_dict
                    ELSE /\ score_dict' = Aggregate(modules_info, health_score,
                                                    pool_events_score, sc.value)
                         /\ pc' = "set_weights"
                         /\ UNCHANGED error
    /\ UNCHANGED <<modules_info, calls, outcome, answers, requests,
                   health_data, health_score, valid_miner_infos,
                   pool_event_check_synapses, pool_events, accuracy,
                   accuracy_score, pool_events_score, signal_event_synapses,
                   max_allowed_weights, cut_scores, weighted_scores, votes>>
    /\ UNCHANGED minerVars
    /\ UNCHANGED serverVars
    /\ UNCHANGED registryVars

\* set_weights: cut, rescale to integers, drop the zeros, client.vote
SetWeights ==
    /\ pc = "set_weights"
    /\ LET cut == cut_to_max_allowed_weights(score_dict, max_allowed_weights)
       IN  /\ cut_scores' = cut
           /\ \/ /\ Len(cut) > 0
                 /\ SumScores(cut) = 0          \* score * 1000 / 0.0
                 /\ Raise("ZeroDivisionError")
                 /\ UNCHANGED <<weighted_scores, votes>>
              \/ /\ (Len(cut) = 0 \/ SumScores(cut) # 0)
                 /\ weighted_scores' = WeightedScores(cut)
                 /\ \/ /\ votes' = Append(votes, WeightedScores(cut))
                       /\ pc' = "sleep"
                       /\ UNCHANGED error
                    \/ /\ Raise("client.vote")   \* the ledger call raises
                       /\ UNCHANGED votes
    /\ UNCHANGED <<max_allowed_weights, score_dict>>
    /\ UNCHANGED cycleVars
    /\ UNCHANGED minerVars
    /\ UNCHANGED serverVars
    /\ UNCHANGED registryVars

\* validation_loop: time.sleep until the next iteration
Sleep ==
    /\ pc = "sleep"
    /\ pc' = "idle"
    /\ UNCHANGED error
    /\ UNCHANGED cycleVars
    /\ UNCHANGED weightVars
    /\ UNCHANGED minerVars
    /\ UNCHANGED serverVars
    /\ UNCHANGED registryVars

Next ==
    \/ ValidateStepBegin
    \/ \E i \in 1..MaxPeers : Call(i)
    \/ HealthRoundDone
    \/ PoolEventRoundDone
    \/ SignalRoundDone
    \/ Sleep

Spec == Init /\ [][Next]_vars

(***************************************************************************)
(* set_weights on its own: the score map that validate_step hands over is  *)
(* drawn from a bounded set, then set_weights and the rest of the loop     *)
(* iteration run.                                                          *)
(***************************************************************************)
\* overall scores in tenths, each one a value the blend can produce:
\*   10 = 0.3 * 1 + 0.3 * 1 + 0.4 * 1
\*  -32 = 0.3 * 1 + 0.3 * (-27 + 1) / 2 + 0.4 * 1  (a rejected pool-event answer)
ScoreValues == {-32, 0, 5, 10}

ScoreDicts ==
    UNION {{[i \in 1..Len(keys) |-> <<keys[i], v[i]>>] :
            v \in [1..Len(keys) -> ScoreValues]} : keys \in InjectiveSeqs(Peers)}

InitW ==
    /\ modules_keys = <<>>
    /\ modules_adresses = <<>>
    /\ modules_values = <<>>
    /\ pc = "set_weights"
    /\ error = "none"
    /\ FreshCycle
    /\ max_allowed_weights \in 0..MaxAllowedWeights
    /\ score_dict \in ScoreDicts
    /\ cut_scores = <<>>
    /\ weighted_scores = <<>>
    /\ votes = <<>>
    /\ MinerInit

NextW ==
    \/ SetWeights
    \/ Sleep

SpecW == InitW /\ [][NextW]_vars

(***************************************************************************)
(* The miner on its own: the clock, the external index and the handlers    *)
(***************************************************************************)
InitM ==
    /\ ValidatorInit
    /\ MinerInit

NextM ==
    \/ Restart
    \/ Tick
    \/ \E e \in IndexableEvents : IndexEvent(e)
    \/ \E t \in Handlers : SyncBegin(t)
    \/ \E t \in Handlers : Fetch(t)
    \/ \E t \in Handlers : FetchRaises(t)
    \/ \E t \in Handlers : AddTokenPairsInsert(t)
    \/ \E t \in Handlers : AddTokenPairsRaises(t)
    \/ \E t \in Handlers : AddTokenPairsMark(t)
    \/ \E t \in Handlers : Assign(t)

SpecM == InitM /\ [][NextM]_vars

(***************************************************************************)
(* The store on its own: add_token_pairs called with any batches           *)
(***************************************************************************)
Batches ==
    UNION {[1..n -> PoolCreatedEvents] : n \in 0..MaxBatch}

AddTokenPairs(batch) ==
    /\ Len(token_pairs_table) + Len(batch) <= MaxRows
    /\ token_pairs_table' = add_token_pairs(token_pairs_table, batch)
    /\ UNCHANGED <<wall, index, timetable, last_synced_time, mpc, now,
                   token_pairs, run_start, fresh, overlapped, runs>>
    /\ UNCHANGED validatorVars
    /\ UNCHANGED serverVars

NextDB == \E batch \in Batches : AddTokenPairs(batch)

SpecDB == InitM /\ [][NextDB]_vars

(***************************************************************************)
(* The wire: the miner's bulk responses and their reconstruction by        *)
(* _get_miner_prediction. Numbers are kept as their JSON literals.         *)
(***************************************************************************)
\* the fields of one element of data, in the order they are serialised
DataFields(class_name) ==
    CASE class_name = "PoolEventResponse" ->
           <<"transaction_hash", "pool_address", "block_number">>
      [] class_name = "CurrentPoolMetricResponse" -> <<"pool_address", "fee">>
      [] class_name = "RecentPoolEventResponse" ->
           <<"timestamp", "pool_address", "event_type", "transaction_hash">>

\* what the store returns for each endpoint
StoredData(class_name) ==
    CASE class_name = "PoolEventResponse" ->
           {[transaction_hash |-> "t1", pool_address |-> "A", block_number |-> "1"],
            [transaction_hash |-> "t2", pool_address |-> "B", block_number |-> "2"],
            [transaction_hash |-> "t3", pool_address |-> "A", block_number |-> "3"]}
      [] class_name = "CurrentPoolMetricResponse" ->
           {[pool_address |-> "A", fee |-> "500"],
            [pool_address |-> "B", fee |-> "3000"]}
      [] class_name = "RecentPoolEventResponse" ->
           {[timestamp |-> "1", pool_address |-> "A", event_type |-> "swap",
             transaction_hash |-> "t1"],
            [timestamp |-> "2", pool_address |-> "B", event_type |-> "mint",
             transaction_hash |-> "t2"]}

DataLists(class_name) ==
    UNION {[1..n -> StoredData(class_name)] : n \in 0..MaxEvents}

\* json.dumps of one dict: { key value key value ... }
RECURSIVE DumpMembers(_, _)
DumpMembers(fields, d) ==
    IF Len(fields) = 0 THEN <<>>
    ELSE <<Head(fields), d[Head(fields)]>> \o DumpMembers(Tail(fields), d)
RECURSIVE DumpItems(_, _)
DumpItems(fields, data) ==
    IF Len(data) = 0 THEN <<>>
    ELSE <<"{">> \o DumpMembers(fields, Head(data)) \o <<"}">>
         \o DumpItems(fields, Tail(data))
\* json.dumps of a list of dicts, as the sequence of its tokens
json_dumps(fields, data) == <<"[">> \o DumpItems(fields, data) \o <<"]">>

\* json.loads of such a text: the list of dicts it denotes
json_loads(text) ==
    LET body == SubSeq(text, 2, Len(text) - 1)
        opens == {k \in 1..Len(body) : body[k] = "{"}
        Close(k) == CHOOSE c \in k..Len(body) :
                        /\ body[c] = "}"
                        /\ \A m \in k..(c - 1) : body[m] # "}"
        Item(k) == LET n == (Close(k) - k - 1) \div 2
                       keys == {body[k + 2 * m - 1] : m \in 1..n}
                   IN  [f \in keys |->
                           body[(CHOOSE m \in 1..n : body[k + 2 * m - 1] = f) * 2 + k]]
        Nth(j) == CHOOSE k \in opens : Cardinality({o \in opens : o < k}) = j - 1
    IN  [j \in 1..Cardinality(opens) |-> Item(Nth(j))]

\* hashlib.sha256(text.encode()).hexdigest(): one digest per text; the empty
\* string is the digest of no text
Sha256Hex(text) == <<"sha256">> \o text
EmptyString == <<>>

\* forwardPoolEventSynapse: the digest of json.dumps(pool_events_dict)
forwardPoolEventSynapse(pool_events_dict) ==
    [class_name |-> "PoolEventResponse", data |-> pool_events_dict,
     overall_data_hash |->
         Sha256Hex(json_dumps(DataFields("PoolEventResponse"), pool_events_dict))]

\* forwardCurrentPoolMetricSynapse: overall_data_hash = ""
forwardCurrentPoolMetricSynapse(data) ==
    [class_name |-> "CurrentPoolMetricResponse", data |-> data,
     overall_data_hash |-> EmptyString]

\* forwardRecentPoolEventSynapse: overall_data_hash = ""
forwardRecentPoolEventSynapse(pool_events_dict) ==
    [class_name |-> "RecentPoolEventResponse", data |-> pool_events_dict,
     overall_data_hash |-> EmptyString]

\* Response.json(): the text on the wire
ResponseJson(response) ==
    [class_name |-> response.class_name,
     data |-> json_dumps(DataFields(response.class_name), response.data),
     overall_data_hash |-> response.overall_data_hash]

\* response = json.loads(response), as client.call returned it
ResponseLoads(text) ==
    [kind |-> "response", class_name |-> text.class_name, fields_ok |-> TRUE,
     payload |-> [class_name |-> text.class_name, data |-> json_loads(text.data),
                  overall_data_hash |-> text.overall_data_hash],
     elapsed |-> 1]

\* a miner endpoint answers a request with the given store content
Forward(response) ==
    /\ Len(calls) < MaxMessages
    /\ calls' = Append(calls, [response |-> response, text |-> ResponseJson(response)])
    /\ outcome' = Append(outcome, Pending)
    /\ answers' = Append(answers, Pending)
    /\ UNCHANGED <<pc, error, modules_info, requests, health_data,
                   health_score, valid_miner_infos, pool_event_check_synapses,
                   pool_events, accuracy, accuracy_score, pool_events_score,
                   signal_event_synapses, signal_events, signal_events_score>>
    /\ UNCHANGED weightVars
    /\ UNCHANGED minerVars
    /\ UNCHANGED serverVars
    /\ UNCHANGED registryVars

ForwardPoolEvent ==
    \E d \in DataLists("PoolEventResponse") : Forward(forwardPoolEventSynapse(d))
ForwardCurrentPoolMetric ==
    \E d \in DataLists("CurrentPoolMetricResponse") :
        Forward(forwardCurrentPoolMetricSynapse(d))
ForwardRecentPoolEvent ==
    \E d \in DataLists("RecentPoolEventResponse") :
        Forward(forwardRecentPoolEventSynapse(d))

\* the validator receives the text of call i and reconstructs the response
Receive(i) ==
    /\ i \in 1..Len(calls)
    /\ outcome[i] = Pending
    /\ outcome' = [outcome EXCEPT ![i] = ResponseLoads(calls[i].text)]
    /\ answers' = [answers EXCEPT ![i] =
                      _get_miner_prediction(ResponseLoads(calls[i].text))]
    /\ UNCHANGED <<pc, error, modules_info, calls, requests, health_data,
                   health_score, valid_miner_infos, pool_event_check_synapses,
                   pool_events, accuracy, accuracy_score, pool_events_score,
                   signal_event_synapses, signal_events, signal_events_score>>
    /\ UNCHANGED weightVars
    /\ UNCHANGED minerVars
    /\ UNCHANGED serverVars
    /\ UNCHANGED registryVars

NextP ==
    \/ ForwardPoolEvent
    \/ ForwardCurrentPoolMetric
    \/ ForwardRecentPoolEvent
    \/ \E i \in 1..MaxMessages : Receive(i)

SpecP == InitM /\ [][NextP]_vars

(***************************************************************************)
(* The prediction endpoints: sync_token_pairs, the price path to the       *)
(* reference token and the price series handed to the prediction model     *)
(***************************************************************************)
\* the tokens a prediction may be asked for; prices are quoted in the
\* reference token
Tokens == {"a", "b", "c"}
ReferenceToken == "a"

\* the stored pairs as an undirected graph
Adjacent(table, x, y) ==
    \E i \in 1..Len(table) : {table[i].token0, table[i].token1} = {x, y} /\ x # y

\* the simple paths from token to the reference token
Paths(table, token) ==
    {p \in InjectiveSeqs(Tokens) :
        /\ Len(p) >= 2
        /\ p[1] = token
        /\ p[Len(p)] = ReferenceToken
        /\ \A k \in 1..(Len(p) - 1) : Adjacent(table, p[k], p[k + 1])}

NoPriceRoute == [status |-> "NoPriceRoute"]

\* breadthFirstSearch: the hops of a shortest path from the token to the
\* reference token, the empty path for the reference token itself, and the
\* NoPriceRoute condition when there is no path
breadthFirstSearch(table, token_address) ==
    IF token_address = ReferenceToken THEN [status |-> "path", hops |-> <<>>]
    ELSE IF Paths(table, token_address) = {} THEN NoPriceRoute
    ELSE LET p == CHOOSE q \in Paths(table, token_address) :
                      \A r \in Paths(table, token_address) : Len(q) <= Len(r)
         IN  [status |-> "path",
              hops |-> [k \in 1..(Len(p) - 1) |-> <<p[k], p[k + 1]>>]]

\* the price ratios of one pool over the series, as
\* uniswap_fetcher_rs.get_pool_price_ratios returns them
PriceRatios == {1, 2}
PriceSeries == [1..MaxSteps -> PriceRatios]

\* price_in_usd = [1] * n
Ones == [i \in 1..MaxSteps |-> 1]

\* price_in_usd = [price_in_usd[i] * float(data[i]['price_ratio'])
\*                 for i in range(len(data))]
Times(price_in_usd, data) == [i \in 1..Len(data) |-> price_in_usd[i] * data[i]]

\* the loop body run for every hop, with any ratios the pools may have
RECURSIVE PriceInUsd(_, _)
PriceInUsd(token_pairs_, price_in_usd) ==
    IF token_pairs_ = <<>> THEN {price_in_usd}
    ELSE UNION {PriceInUsd(Tail(token_pairs_), Times(price_in_usd, data)) :
                data \in PriceSeries}

Returned(price_in_usd) ==
    [status |-> "ok", price_history |-> price_in_usd, error |-> "none"]
Raised(name) == [status |-> "raised", price_history |-> <<>>, error |-> name]

\* forwardPredictionSynapse / forwardPredictionAPISynapse after the sync:
\* token_pairs = breadthFirstSearch(self, synapse.token_address), then
\* 'for token_pair in token_pairs' with no branch for a missing route and
\* no try/except
PredictionOutcomes(route) ==
    IF route.status = "path" THEN {Returned(h) : h \in PriceInUsd(route.hops, Ones)}
    ELSE \* NoPriceRoute reaches the loop as an empty list, as None or as an
         \* exception of the search
         {Returned(h) : h \in PriceInUsd(<<>>, Ones)}       \* [] : no iteration
         \cup {Raised("TypeError")}                         \* for ... in None
         \cup {Raised("NoPriceRoute")}                      \* the search raises

PredictionEndpoints == {"forwardPredictionSynapse", "forwardPredictionAPISynapse"}

\* a prediction request is served: sync_token_pairs runs to its end, then
\* the path is searched in the stored pairs and the series is built
ForwardPrediction(endpoint, token_address) ==
    /\ Len(served) < MaxServed
    /\ \A t \in Handlers : ~Running(t)
    /\ LET now_ == wall - SafetyMargin
           batch == get_pool_created_events_between_two_timestamps(
                        index, last_synced_time, now_)
           table == add_token_pairs(token_pairs_table, batch)
           route == breadthFirstSearch(table, token_address)
       IN  /\ Len(table) <= MaxRows
           /\ token_pairs_table' = table
           /\ timetable' = mark_window_completed(timetable, last_synced_time, now_)
           /\ last_synced_time' = now_
           /\ \E result \in PredictionOutcomes(route) :
                 served' = Append(served,
                     [endpoint |-> endpoint, token_address |-> token_address,
                      route |-> route, result |-> result])
    /\ UNCHANGED <<wall, index, mpc, now, token_pairs, run_start, fresh,
                   overlapped, runs>>
    /\ UNCHANGED validatorVars

\* the sync at the start of the handler raises: the handler raises
ForwardPredictionSyncRaises(endpoint, token_address) ==
    /\ Len(served) < MaxServed
    /\ \A t \in Handlers : ~Running(t)
    /\ served' = Append(served,
           [endpoint |-> endpoint, token_address |-> token_address,
            route |-> None, result |-> Raised("sync_token_pairs")])
    /\ UNCHANGED <<wall, index, token_pairs_table, timetable, last_synced_time,
                   mpc, now, token_pairs, run_start, fresh, overlapped, runs>>
    /\ UNCHANGED validatorVars

NextR ==
    \/ Tick
    \/ \E e \in IndexableEvents : IndexEvent(e)
    \/ \E endpoint \in PredictionEndpoints, token_address \in Tokens :
          ForwardPrediction(endpoint, token_address)
    \/ \E endpoint \in PredictionEndpoints, token_address \in Tokens :
          ForwardPredictionSyncRaises(endpoint, token_address)

SpecR == InitM /\ [][NextR]_vars

(***************************************************************************)
(* score_health_check on its own: applied to any list of health results,   *)
(* with reported times on both sides of the validator's clock              *)
(***************************************************************************)
\* time_completed values a peer may report: before the protocol start, in
\* the past of the validator's clock and one and two days ahead of it
ReportedTimes ==
    {START_TIMESTAMP + k * DAY_SECONDS : k \in {-1, 0, 1, 11, 12}}

\* one entry of miner_results: None or an answered HealthCheckResponse
HealthResults ==
    {None} \cup
    {[status |-> "ok",
      data |-> [time_completed |-> t, pool_addresses |-> a],
      process_time |-> 1] : t \in ReportedTimes, a \in PoolAddressLists}

\* health_score = self.score_health_check(miner_results_health_data)
ScoreHealthCheck ==
    /\ pc = "idle"
    /\ \E keys \in Directories, today \in Clock :
          \E results \in [1..Len(keys) -> HealthResults] :
              /\ modules_info' = keys
              /\ health_data' = results
              /\ health_score' = score_health_check(keys, results, today)
    /\ UNCHANGED <<pc, error, calls, outcome, answers, requests,
                   valid_miner_infos, pool_event_check_synapses, pool_events,
                   accuracy, accuracy_score, pool_events_score,
                   signal_event_synapses, signal_events, signal_events_score>>
    /\ UNCHANGED weightVars
    /\ UNCHANGED minerVars
    /\ UNCHANGED serverVars
    /\ UNCHANGED registryVars

NextH == ScoreHealthCheck

SpecH == Init /\ [][NextH]_vars

(***************************************************************************)
(* An honest miner polled by the validator: the method the validator calls *)
(* for each request type, the miner's handler, the reconstruction of the   *)
(* answer and the spot-check of a pool-event answer                        *)
(***************************************************************************)
\* the methods of Miner decorated with @endpoint
MinerEndpoints ==
    {<<"forward", c>> : c \in
        {"HealthCheckSynapse", "PoolEventSynapse", "PoolMetricSynapse",
         "PredictionSynapse", "CurrentPoolMetricSynapse",
         "RecentPoolEventSynapse", "CurrentTokenMetricSynapse",
         "PoolMetricAPISynapse", "TokenMetricAPISynapse", "SwapEventAPISynapse",
         "MintEventAPISynapse", "BurnEventAPISynapse", "PredictionAPISynapse"}}

\* f'forward{synapse.class_name}'
MethodName(class_name) == <<"forward", class_name>>

\* the pairs the honest miner has synced: their pools are the pools of the
\* authoritative events
SyncedPairs ==
    <<TokenPair("a", "b", 500, "A", 1, START_TIMESTAMP + 1),
      TokenPair("a", "c", 500, "B", 2, START_TIMESTAMP + 2)>>

\* DBManager.fetch_completed_time: the completed window with the latest start
fetch_completed_time(windows) ==
    LET done == {i \in 1..Len(windows) : windows[i].completed}
    IN  windows[CHOOSE i \in done : \A j \in done : windows[j].start <= windows[i].start]

\* DBManager.fetch_token_pairs, the pool_address of every row
fetch_token_pairs(table) == [i \in 1..Len(table) |-> table[i].pool]

\* DBManager.fetch_pool_events: the events of every pool whose block lies
\* in start_block..end_block
fetch_pool_events(events, start_block, end_block) ==
    ByBlock({e \in events : /\ e.block_number >= start_block
                            /\ e.block_number <= end_block})

\* Miner.forwardHealthCheckSynapse
forwardHealthCheckSynapse(windows, table) ==
    [time_completed |-> fetch_completed_time(windows).end,
     pool_addresses |-> fetch_token_pairs(table)]

\* Miner.forwardPoolEventSynapse, the data of the response: the stored
\* events of the block range of the request, as dicts
PoolEventsOf(synapse) ==
    LET range == get_block_number_range(synapse.start_datetime, synapse.end_datetime)
        stored == fetch_pool_events(ChainEvents, range[1], range[2])
    IN  [is_none |-> FALSE,
         records |-> [i \in 1..Len(stored) |->
                         Rec(TRUE, stored[i].block_number,
                             stored[i].transaction_hash)]]

\* the requests of a cycle for a miner with the given health response
SynapsesFor(round, miner_data) ==
    LET tagged(S) == {[class_name |-> RequestClass(round), body |-> x] : x \in S}
    IN  CASE round = "health" -> tagged({<<>>})
          [] round = "pool_event" -> tagged(PoolEventSynapsesFor(miner_data))
          [] round = "signal" -> tagged(SignalEventSynapsesFor(miner_data))

\* what client.call returns for a request to the honest miner: the JSON of
\* the handler's response, or an error when the miner has no such method
ClientCall(synapse) ==
    IF MethodName(synapse.class_name) \notin MinerEndpoints
    THEN [kind |-> "refused", class_name |-> "", fields_ok |-> FALSE,
          payload |-> None, elapsed |-> 0]
    ELSE [kind |-> "response",
          class_name |-> CASE synapse.class_name = "HealthCheckSynapse"
                                -> "HealthCheckResponse"
                           [] synapse.class_name = "PoolEventSynapse"
                                -> "PoolEventResponse"
                           [] OTHER -> "PoolMetricResponse",
          fields_ok |-> TRUE,
          payload |-> CASE synapse.class_name = "HealthCheckSynapse"
                             -> forwardHealthCheckSynapse(timetable, token_pairs_table)
                        [] synapse.class_name = "PoolEventSynapse"
                             -> PoolEventsOf(synapse.body)
                        [] OTHER -> [is_none |-> FALSE],
          elapsed |-> 1]

\* one call of _get_miner_prediction to the honest miner and, for a
\* pool-event answer, its spot-check
Poll(round) ==
    /\ Len(served) < MaxServed
    /\ \E synapse \in SynapsesFor(round,
                        forwardHealthCheckSynapse(timetable, token_pairs_table)) :
          LET miner_answer == _get_miner_prediction(ClientCall(synapse))
              checks == IF round = "pool_event" /\ miner_answer # None
                        THEN check_miner_answer_pool_event(synapse.body,
                                                           miner_answer.data)
                        ELSE {None}
          IN  \E raw \in checks :
                  served' = Append(served,
                      [round |-> round, synapse |-> synapse,
                       method |-> MethodName(synapse.class_name),
                       miner_answer |-> miner_answer, raw |-> raw])
    /\ UNCHANGED minerVars
    /\ UNCHANGED validatorVars

\* the honest miner after a sync that stored the pairs and completed the
\* first day
InitE ==
    /\ ValidatorInit
    /\ wall = START_TIMESTAMP + SafetyMargin
    /\ index = {}
    /\ token_pairs_table = add_token_pairs(<<>>, SyncedPairs)
    /\ timetable = <<Timetable(START_TIMESTAMP, START_TIMESTAMP + DAY_SECONDS, TRUE)>>
    /\ last_synced_time = START_TIMESTAMP
    /\ mpc = [t \in Handlers |-> "idle"]
    /\ now = [t \in Handlers |-> START_TIMESTAMP]
    /\ token_pairs = [t \in Handlers |-> <<>>]
    /\ run_start = [t \in Handlers |-> START_TIMESTAMP]
    /\ fresh = [t \in Handlers |-> FALSE]
    /\ overlapped = [t \in Handlers |-> FALSE]
    /\ runs = <<>>
    /\ served = <<>>

NextE == \E round \in {"health", "pool_event", "signal"} : Poll(round)

SpecE == InitE /\ [][NextE]_vars

(***************************************************************************)
(* The token_pairs table under add_token_pairs, mark_token_pairs_as_       *)
(* complete and reset_token_pairs. served holds the last call's result.    *)
(***************************************************************************)
\* the (token0, token1, fee) tuples a caller can list
PairTuples == {NaturalKey(e) : e \in PoolCreatedEvents}

TupleLists == UNION {[1..n -> PairTuples] : n \in 0..MaxBatch}

\* query(Tokenpairstable).filter_by(token0, token1, fee).update(completed: True)
\* inside the session: every row with these three values
update_completed(session, token_pair) ==
    [i \in 1..Len(session) |->
        IF NaturalKey(session[i]) = token_pair
        THEN [session[i] EXCEPT !.completed = TRUE]
        ELSE session[i]]

\* the loop of mark_token_pairs_as_complete over the rows as the open
\* session sees them: it stops at the first tuple whose .first() is None
RECURSIVE MarkLoop(_, _)
MarkLoop(session, pair_list) ==
    IF pair_list = <<>> THEN [found |-> TRUE, session |-> session]
    ELSE IF \E i \in 1..Len(session) : NaturalKey(session[i]) = Head(pair_list)
         THEN MarkLoop(update_completed(session, Head(pair_list)), Tail(pair_list))
         ELSE [found |-> FALSE, session |-> session]

\* a session that writes each update through immediately
mark_token_pairs_as_complete_autocommit(table, pair_list) ==
    LET loop == MarkLoop(table, pair_list)
    IN  [returned |-> loop.found, table |-> loop.session]

\* DBManager.mark_token_pairs_as_complete: the updates are committed after
\* the loop; 'return False' leaves the with-block without a commit and the
\* session's close discards its updates
mark_token_pairs_as_complete(table, pair_list) ==
    LET loop == MarkLoop(table, pair_list)
    IN  IF loop.found THEN [returned |-> TRUE, table |-> loop.session]
        ELSE [returned |-> FALSE, table |-> table]

\* DBManager.reset_token_pairs: update every row to completed = False; commit
reset_token_pairs(table) ==
    [i \in 1..Len(table) |-> [table[i] EXCEPT !.completed = FALSE]]

MarkTokenPairsAsComplete(pair_list) ==
    /\ LET out == mark_token_pairs_as_complete(token_pairs_table, pair_list)
       IN  /\ token_pairs_table' = out.table
           /\ served' = <<[op |-> "mark_token_pairs_as_complete",
                           token_pairs |-> pair_list,
                           returned |-> out.returned]>>
    /\ UNCHANGED <<wall, index, timetable, last_synced_time, mpc, now,
                   token_pairs, run_start, fresh, overlapped, runs>>
    /\ UNCHANGED validatorVars

ResetTokenPairs ==
    /\ token_pairs_table' = reset_token_pairs(token_pairs_table)
    /\ served' = <<[op |-> "reset_token_pairs", token_pairs |-> <<>>,
                    returned |-> TRUE]>>
    /\ UNCHANGED <<wall, index, timetable, last_synced_time, mpc, now,
                   token_pairs, run_start, fresh, overlapped, runs>>
    /\ UNCHANGED validatorVars

NextT ==
    \/ \E batch \in Batches : AddTokenPairs(batch)
    \/ \E pair_list \in TupleLists : MarkTokenPairsAsComplete(pair_list)
    \/ ResetTokenPairs

SpecT == InitM /\ [][NextT]_vars

(***************************************************************************)
(* Properties                                                              *)
(***************************************************************************)
Rounds == {"health_round", "pool_event_round", "signal_round"}

\* the directory the running round polls
RoundDirectory == IF pc = "health_round" THEN modules_info ELSE valid_miner_infos

\* the peers that were sent a request of the given round in this cycle
Polled(round) == {r[2] : r \in {q \in requests : q[1] = round}}

AllNone(results) == \A i \in 1..Len(results) : results[i] = None

\* C1: get_miner_answer returns exactly one result per peer of the directory
\* it was given, in the directory's key order, whatever the outcome of each
\* call: the i-th call goes to the i-th peer, the i-th result is None exactly
\* when that call failed, and pairing keys with results loses no peer.
C1_OneResultPerPeer ==
    /\ pc \in Rounds =>
          /\ Len(calls) = Len(RoundDirectory)
          /\ \A i \in 1..Len(calls) : calls[i].peer = RoundDirectory[i]
          /\ AllReturned =>
                LET res == get_miner_answer_result(answers)
                    paired == zip(RoundDirectory, res)
                IN  /\ Len(res) = Len(RoundDirectory)
                    /\ {paired[i][1] : i \in 1..Len(paired)} = Range(RoundDirectory)
                    /\ \A i \in 1..Len(res) :
                          (res[i] = None) <=> ~Answered(outcome[i])
    /\ health_data # <<>> => Len(health_data) = Len(modules_info)
    /\ pool_events # <<>> => Len(pool_events) = Len(valid_miner_infos)
    /\ signal_events # <<>> => Len(signal_events) = Len(valid_miner_infos)

\* a health round of two peers has joined; the first peer failed, the second
\* answered, and both have an entry
C1_Witness ==
    /\ Len(modules_info) = 2
    /\ Len(health_data) = 2
    /\ health_data[1] = None
    /\ health_data[2] # None

\* C2: the result of each call depends on that call's outcome only: None
\* after a timeout, a refused connection, an unknown class_name or missing
\* fields, the constructed response otherwise; no outcome makes the round raise.
C2_FailureIsolated ==
    /\ pc \in Rounds =>
          /\ error = "none"
          /\ \A i \in 1..Len(calls) :
                outcome[i] # Pending =>
                   answers[i] =
                      IF /\ outcome[i].kind = "response"
                         /\ outcome[i].class_name = ResponseClass(RoundOf(pc))
                         /\ outcome[i].fields_ok
                      THEN [status |-> "ok", data |-> outcome[i].payload,
                            process_time |-> outcome[i].elapsed]
                      ELSE None
          /\ \A i \in 1..Len(calls) : outcome[i] = Pending => answers[i] = Pending

\* in one round the call to the first peer timed out and the second peer's
\* answer is there all the same
C2_Witness ==
    /\ pc = "health_round"
    /\ Len(calls) = 2
    /\ outcome[1] # Pending
    /\ outcome[1].kind = "timeout"
    /\ answers[1] = None
    /\ outcome[2] # Pending
    /\ Answered(outcome[2])
    /\ answers[2] # None

\* C3: a peer without a health answer is sent no pool-event and no signal
\* request in the cycle; a pool-event or signal round that has been polled
\* has polled exactly the peers that have a health score.
C3_OnlyHealthyPolled ==
    /\ \A r \in requests : r[1] # "health" => r[2] \in DOMAIN health_score
    /\ \A i \in 1..Len(health_data) :
          health_data[i] = None =>
             \A r \in requests : r[2] = modules_info[i] => r[1] = "health"
    /\ (pc = "pool_event_round" /\ AllReturned) =>
          Polled("pool_event") = DOMAIN health_score
    /\ pool_events # <<>> => Polled("pool_event") = DOMAIN health_score
    /\ (pc = "signal_round" /\ AllReturned) =>
          Polled("signal") = DOMAIN health_score
    /\ signal_events # <<>> => Polled("signal") = DOMAIN health_score

\* both later rounds were polled in a cycle in which peer 1 failed the
\* health round and peer 2 passed it
C3_Witness ==
    /\ pc = "signal_round"
    /\ modules_info = <<1, 2>>
    /\ Len(health_data) = 2
    /\ health_data[1] = None
    /\ health_data[2] # None
    /\ AllReturned
    /\ Polled("pool_event") = {2}
    /\ Polled("signal") = {2}

\* C4: when every peer of the health round failed, validate_step returns
\* without a pool-event or signal request and without a vote, and
\* validation_loop sleeps and comes back to the top of the loop.
C4_NoValidPeers ==
    [][ /\ (pc = "health_round" /\ AllReturned /\ AllNone(answers)) =>
              /\ pc' = "sleep"
              /\ error' = "none"
              /\ requests' = requests
              /\ Polled("pool_event") = {}
              /\ Polled("signal") = {}
              /\ votes' = votes
        /\ (pc = "sleep" /\ AllNone(health_data)) =>
              /\ pc' = "idle"
              /\ error' = "none"
              /\ requests' = requests
              /\ votes' = votes
      ]_vars

\* the loop is back at its top after a cycle in which both peers failed
C4_Witness ==
    /\ pc = "idle"
    /\ Len(modules_info) = 2
    /\ Len(health_data) = 2
    /\ AllNone(health_data)
    /\ Polled("health") = {1, 2}
    /\ Polled("pool_event") = {}
    /\ Polled("signal") = {}
    /\ votes = <<>>

\* C5: once the three rounds of a cycle with a healthy peer have joined,
\* validate_step has its score map and stands before set_weights, and a peer
\* missing from a round does not make the blend fail (no KeyError).
C5_AggregationReached ==
    /\ error # "KeyError"
    /\ signal_events # <<>> =>
          /\ pc = "set_weights"
          /\ \A i \in 1..Len(score_dict) :
                LET k == score_dict[i][1]
                IN  score_dict[i][2] = Blend(health_score[k], pool_events_score[k],
                                             signal_events_score[k])

\* C6: a failure of the ledger submission (client.vote raises, or the weight
\* computation fails) does not end validation_loop.
C6_SubmissionFailureSurvived ==
    ~(pc = "terminated" /\ error \in {"client.vote", "ZeroDivisionError"})

SumWeights(ws) == SumScores(ws)

C8_CutKeepsTop ==
    pc # "set_weights" =>
       LET kept == Range(cut_scores)
           dropped == Range(score_dict) \ kept
       IN  /\ Len(cut_scores) = Min(Len(score_dict), max_allowed_weights)
           /\ kept \subseteq Range(score_dict)
           /\ \A i, j \in 1..Len(cut_scores) :
                 i # j => cut_scores[i][1] # cut_scores[j][1]
           /\ \A x \in kept : \A y \in dropped : x[2] >= y[2]

\* of two peers the second has the higher score and is the one kept
C8_Witness ==
    /\ pc = "sleep"
    /\ Len(score_dict) = 2
    /\ max_allowed_weights = 1
    /\ score_dict[1][2] < score_dict[2][2]
    /\ cut_scores = <<score_dict[2]>>

\* the peers whose spot-check returned a fraction
Fractions == {k \in DOMAIN accuracy : ~accuracy[k].is_false}

\* C9: for the raw accuracies k/10 the spot-check returns, the transformed
\* score is negative below 0.75, positive above it, 1 at 1.0, and of two
\* peers the one with the larger raw accuracy has the larger score.
C9_TransformMonotone ==
    /\ \A k \in Fractions :
          LET c == accuracy[k].correct_count
          IN  /\ c \in 0..ANSWER_CHECK_COUNT
              /\ 4 * c < 30 => accuracy_score[k] < 0
              /\ 4 * c > 30 => accuracy_score[k] > 0
              /\ c = 10 => accuracy_score[k] = AccuracyDen
    /\ \A k1, k2 \in Fractions :
          accuracy[k1].correct_count < accuracy[k2].correct_count
             => accuracy_score[k1] < accuracy_score[k2]

\* two peers were spot-checked with 7 and 8 accepted trials out of 10
C9_Witness ==
    /\ DOMAIN accuracy = {1, 2}
    /\ accuracy[1] = Raw(7)
    /\ accuracy[2] = Raw(8)
    /\ accuracy_score[1] < 0
    /\ accuracy_score[2] > 0

\* the scored pool-event answers that carry a record list and were rejected
\* by a trial (the spot-check returned False)
Rejected ==
    {i \in 1..Len(pool_events) :
        /\ pool_events[i] # None
        /\ valid_miner_infos[i] \in DOMAIN accuracy
        /\ ~pool_events[i].data.is_none
        /\ accuracy[valid_miner_infos[i]].is_false}

\* the record has no block number or one outside the block range of the query
OutsideRange(miner_prompt, block_data) ==
    LET range == get_block_number_range(miner_prompt.start_datetime,
                                        miner_prompt.end_datetime)
    IN  \/ ~block_data.has_block
        \/ block_data.block_number < range[1]
        \/ block_data.block_number > range[2]

\* C10 as stated: a rejected answer has the accuracy score 0
C10_RejectedScoresZero ==
    \A i \in Rejected : accuracy_score[valid_miner_infos[i]] = 0

\* C10 as amended: a trial that picks a record outside the block range (or
\* without block number) ends the verification with the result False, and the
\* accuracy score of the peer is the transform of 0, that is -27.
C10_RejectedScoresMinus27 ==
    /\ \A i \in Rejected :
          /\ accuracy[valid_miner_infos[i]] = RawFalse
          /\ accuracy_score[valid_miner_infos[i]] = -27 * AccuracyDen
    /\ \A i \in 1..Len(pool_events) :
          (/\ pool_events[i] # None
           /\ valid_miner_infos[i] \in DOMAIN accuracy
           /\ ~pool_events[i].data.is_none
           /\ \A j \in 1..Len(pool_events[i].data.records) :
                 OutsideRange(pool_event_check_synapses[i],
                              pool_events[i].data.records[j]))
          => i \in Rejected

\* an answer whose only record has no block number was rejected
C10_Witness ==
    \E i \in Rejected :
        /\ Len(pool_events[i].data.records) = 1
        /\ ~pool_events[i].data.records[1].has_block
        /\ accuracy_score[valid_miner_infos[i]] = -3375

\* the pool-event round joined with at least one answered peer
PoolEventScoringStarted ==
    /\ pool_events # <<>>
    /\ AnsweredIdx(pool_events) # {}

\* C11: a trial of the pool-event spot-check that cannot pick a record, or
\* during which the authoritative service raises, counts as a failed trial:
\* the scoring of the round does not end with that exception, so the loop is
\* never terminated by it.
C11_TrialErrorCounted ==
    PoolEventScoringStarted => error \notin {"IndexError", "uniswap_fetcher_rs"}

C13_OneRowPerNaturalKey ==
    \A i, j \in 1..Len(token_pairs_table) :
        NaturalKey(token_pairs_table[i]) = NaturalKey(token_pairs_table[j]) => i = j

\* the step ends a pass of handler t with an exception
PassFailed(t) ==
    /\ mpc[t] # "idle"
    /\ mpc'[t] = "idle"
    /\ Len(runs') = Len(runs) + 1
    /\ ~runs'[Len(runs')].ok

\* the token pair is a row of the token_pairs table
Stored(token_pair) ==
    \E i \in 1..Len(token_pairs_table) :
        /\ NaturalKey(token_pairs_table[i]) = NaturalKey(token_pair)
        /\ token_pairs_table[i].pool = token_pair.pool

C15_SingleWriter ==
    \A i, j \in 1..Len(runs) :
        (/\ i < j
         /\ runs[i].thread # runs[j].thread
         /\ ~runs[i].alone /\ ~runs[j].alone
         /\ runs[i].ok /\ runs[j].ok)
        => /\ runs[i].start # runs[j].start
           /\ runs[j].now >= runs[i].now

\* the largest time_completed among the answers of the health round
MxTimestamp ==
    SetMax({health_data[i].data.time_completed : i \in AnsweredIdx(health_data)})

Sent == 1..Len(calls)
Reconstructed == {i \in Sent : answers[i] # Pending /\ answers[i] # None}

\* C17: every bulk response the miner emits carries the hex digest of its
\* data payload; a pool-event response reconstructed through class_dict has
\* the fields of the original, and the digest recomputed from the
\* reconstructed data is the transmitted overall_data_hash.
C17_DigestRoundTrip ==
    /\ \A i \in Sent :
          calls[i].response.overall_data_hash =
              Sha256Hex(json_dumps(DataFields(calls[i].response.class_name),
                                   calls[i].response.data))
    /\ \A i \in Reconstructed :
          /\ answers[i].data = calls[i].response
          /\ Sha256Hex(json_dumps(DataFields(answers[i].data.class_name),
                                  answers[i].data.data))
                = answers[i].data.overall_data_hash

\* discovery has run: only the initial state has neither a cycle under way
\* nor a registry read
Discovered == pc # "idle" \/ modules_keys # <<>>

AllDigits(s, from, to) ==
    /\ from <= to
    /\ \A k \in from..to : s[k] \in Digits

\* s contains ip:port: four groups of one to three digits separated by
\* dots, a colon and a digit
ContainsIpPort(s) ==
    LET Dots == {k \in 1..Len(s) : s[k] = "."}
        Colons == {k \in 1..Len(s) : s[k] = ":"}
    IN  \E p1, p2, p3 \in Dots, q \in Colons :
            /\ p1 > 1 /\ s[p1 - 1] \in Digits
            /\ AllDigits(s, p1 + 1, p2 - 1) /\ p2 - p1 - 1 <= 3
            /\ AllDigits(s, p2 + 1, p3 - 1) /\ p3 - p2 - 1 <= 3
            /\ AllDigits(s, p3 + 1, q - 1) /\ q - p3 - 1 <= 3
            /\ q < Len(s) /\ s[q + 1] \in Digits

IsPartOf(g, s) ==
    \E k \in 0..(Len(s) - Len(g)) : SubSeq(s, k + 1, k + Len(g)) = g

\* the ids with a registered key and an address that contains ip:port
Eligible ==
    {id \in {modules_keys[i][1] : i \in 1..Len(modules_keys)} :
        \E j \in 1..Len(modules_adresses) :
            /\ modules_adresses[j][1] = id
            /\ ContainsIpPort(modules_adresses[j][2])}

\* C18: retrieve_miner_information returns exactly the ids that have a
\* registered key and an address containing ip:port, each with its
\* (ip, port), a part of its address, and its key; when the validator's key
\* is not registered it raises and no peer is polled in the cycle.
C18_DiscoveryExact ==
    Discovered =>
        IF \E i \in 1..Len(modules_keys) : modules_keys[i][2] = val_ss58
        THEN /\ error # "RuntimeError"
             /\ Range(modules_info) = Eligible
             /\ Len(modules_values) = Len(modules_info)
             /\ \A i \in 1..Len(modules_info) :
                   LET ip == modules_values[i][1][1]
                       port == modules_values[i][1][2]
                       addr == Get(modules_adresses, modules_info[i]).value
                   IN  /\ modules_values[i][2] = Get(modules_keys, modules_info[i]).value
                       /\ IsPartOf(ip \o <<":">> \o port, addr)
                       /\ AllDigits(port, 1, Len(port))
                       /\ \A k \in 1..Len(ip) : ip[k] \in Digits \cup {"."}
        ELSE /\ error = "RuntimeError"
             /\ pc = "terminated"
             /\ modules_info = <<>>
             /\ calls = <<>>
             /\ requests = {}

\* the validator and both peers are registered, peer 1 with an address that
\* holds 10.0.0.1:80 and peer 2 with one that has no port: peer 1 alone is
\* in the directory and was polled
C18_Witness ==
    /\ Len(modules_keys) = 3
    /\ Len(modules_adresses) = 2
    /\ modules_info = <<1>>
    /\ modules_values = <<<< <<<<"1", "0", ".", "0", ".", "0", ".", "1">>, <<"8", "0">>>>,
                            Ss58Address(1) >>>>
    /\ requests = {<<"health", 1>>}

\* the steps of one cycle in their order; an exception ends the cycle
\* (and the loop) from any step
CycleOrder ==
    {<<"idle", "health_round">>,
     <<"health_round", "sleep">>,
     <<"health_round", "pool_event_round">>,
     <<"pool_event_round", "signal_round">>,
     <<"signal_round", "set_weights">>,
     <<"set_weights", "sleep">>,
     <<"sleep", "idle">>}
    \cup {<<p, "terminated">> :
            p \in {"idle", "health_round", "pool_event_round", "signal_round",
                   "set_weights"}}

\* every call of the running round has returned or failed
Joined == \A i \in 1..Len(calls) : outcome[i] # Pending

\* the step issues a request of the given round
Issues(round) == \E r \in requests' \ requests : r[1] = round

\* C19: within a cycle the steps follow the order discovery, health round,
\* pool-event round, signal round, aggregation, submission, sleep; a round is
\* left (scored) and its score maps are written only once every call of the
\* round has returned or failed; a request of a round is issued only at that
\* round's position, after the previous round has been scored.
C19_CycleOrder ==
    [][/\ pc' # pc => <<pc, pc'>> \in CycleOrder
       /\ (pc \in {"health_round", "pool_event_round", "signal_round"} /\ pc' # pc)
             => Joined
       /\ (health_data' # health_data \/ health_score' # health_score)
             => \/ pc = "idle" /\ health_data' = <<>> /\ health_score' = <<>>
                \/ pc = "health_round" /\ Joined
       /\ (pool_events' # pool_events \/ pool_events_score' # pool_events_score)
             => \/ pc = "idle" /\ pool_events' = <<>> /\ pool_events_score' = <<>>
                \/ pc = "pool_event_round" /\ Joined
       /\ (signal_events' # signal_events
              \/ signal_events_score' # signal_events_score)
             => \/ pc = "idle" /\ signal_events' = <<>> /\ signal_events_score' = <<>>
                \/ pc = "signal_round" /\ Joined
       /\ Issues("health")
             => pc = "health_round" /\ health_data = <<>> /\ pool_events = <<>>
       /\ Issues("pool_event")
             => pc = "pool_event_round" /\ health_data # <<>> /\ pool_events = <<>>
       /\ Issues("signal")
             => pc = "signal_round" /\ health_data # <<>> /\ pool_events # <<>>
      ]_vars

\* both peers were polled in the health, the pool-event and the signal
\* round, and the signal round has joined
C19_Witness ==
    /\ pc = "signal_round"
    /\ Len(calls) = 2
    /\ \A i \in 1..Len(calls) : outcome[i] # Pending
    /\ requests = {"health", "pool_event", "signal"} \X {1, 2}

\* C20: once the signal round has been scored, score_signal_events has
\* returned a score map whose keys are exactly the peers that answered the
\* signal round (each the average of the peer's deviation score and its
\* latency score, computed without the accuracy map of the pool-event round).
C20_SignalScoresForResponders ==
    signal_events # <<>> =>
        /\ error # "score_signal_events"
        /\ DOMAIN signal_events_score
              = {valid_miner_infos[i] : i \in AnsweredIdx(signal_events)}

\* C21: a prediction request for a token without a path to the reference
\* token is answered, not ended by an exception, and its outcome differs
\* from the one of the reference token (price 1 at every step).
C21_NoRouteIsUnknownPrice ==
    \A i \in 1..Len(served) :
        (served[i].endpoint \in PredictionEndpoints
           /\ served[i].route = NoPriceRoute)
        => /\ served[i].result.status = "ok"
           /\ served[i].result.price_history # Ones

\* C22: whatever time_completed values the answering peers report (also
\* values later than the validator's clock), every health score lies in
\* [0, 1].
C22_HealthScoreInUnitInterval ==
    \A k \in DOMAIN health_score :
        /\ 0 <= health_score[k].num
        /\ health_score[k].num <= health_score[k].den

\* C23: for each of the three request types of a cycle the miner has the
\* endpoint forward<class_name>, so every poll of a reachable, healthy miner
\* gives a non-null result.
C23_EveryRoundAnswered ==
    \A i \in 1..Len(served) :
        served[i].round \in {"health", "pool_event", "signal"}
        => /\ served[i].method \in MinerEndpoints
           /\ served[i].miner_answer # None

\* C24: the pool-event answer of an honest miner whose store holds exactly
\* the authoritative events passes every trial of the spot-check: raw
\* accuracy 1.0.
C24_HonestMinerFullAccuracy ==
    \A i \in 1..Len(served) :
        served[i].round = "pool_event"
        => served[i].raw = Raw(ANSWER_CHECK_COUNT)

\* C25: whatever a well-formed health response contains (a time_completed
\* before the protocol start, an empty pool_addresses list), building the
\* pool-event and signal requests does not raise, and every healthy peer is
\* polled in the rounds that follow.
C25_HealthContentCannotAbort ==
    valid_miner_infos # <<>> =>
        /\ error \notin {"get_pool_event_synapses", "get_signal_event_synapse"}
        /\ pc \in {"pool_event_round", "signal_round"}
              => {calls[i].peer : i \in 1..Len(calls)} = Range(valid_miner_infos)

\* the health result of peer k in this cycle
HealthOf(k) ==
    health_data[CHOOSE j \in 1..Len(modules_info) : modules_info[j] = k]

\* the calls of the running round go, in order, to the healthy peers, each
\* with the i-th generated request, which is one that the peer's own health
\* response allows
Aligned(synapses, For(_)) ==
    /\ Len(calls) = Len(valid_miner_infos)
    /\ Len(synapses) = Len(valid_miner_infos)
    /\ \A i \in 1..Len(calls) :
          /\ calls[i].peer = valid_miner_infos[i]
          /\ calls[i].synapse = synapses[i]
          /\ HealthOf(calls[i].peer) # None
          /\ synapses[i] \in For(HealthOf(calls[i].peer).data)

\* C26: in the pool-event and the signal round the i-th request is built
\* from the health response of the i-th healthy peer and is sent to that
\* peer, and the pool-event result recorded under a peer id is a result of
\* checking that peer's answer against that peer's request, whichever peers
\* failed the health round.
C26_RequestAnswerScoreAligned ==
    /\ pc = "pool_event_round"
          => Aligned(pool_event_check_synapses, PoolEventSynapsesFor)
    /\ pc = "signal_round"
          => Aligned(signal_event_synapses, SignalEventSynapsesFor)
    /\ pc = "signal_round" =>
          \A k \in DOMAIN accuracy :
          \E i \in 1..Len(valid_miner_infos) :
              /\ valid_miner_infos[i] = k
              /\ i <= Len(pool_events)
              /\ pool_events[i] # None
              /\ pool_event_check_synapses[i] \in PoolEventSynapsesFor(HealthOf(k).data)
              /\ accuracy[k] \in check_miner_answer_pool_event(
                                     pool_event_check_synapses[i], pool_events[i].data)

\* peer 1 failed the health round and peer 2 answered it: the one request
\* of each later round went to peer 2, whose pool-event answer was checked
C26_Witness ==
    /\ pc = "signal_round"
    /\ modules_info = <<1, 2>>
    /\ Len(health_data) = 2
    /\ health_data[1] = None
    /\ health_data[2] # None
    /\ Len(calls) = 1
    /\ calls[1].peer = 2
    /\ DOMAIN accuracy = {2}

\* C27: the assertion score <= 1 of score_pool_events holds for every
\* answered peer: whatever the spot check returned (False or a count of
\* correct trials out of ANSWER_CHECK_COUNT), the value of
\* check_pool_event_accuracy is at most 1, and so is every accuracy score
\* that the pool-event round records.
C27_AssertScoreAtMostOne ==
    /\ \A raw \in RawResults : check_pool_event_accuracy(raw) <= AccuracyDen
    /\ \A k \in DOMAIN accuracy_score : accuracy_score[k] <= AccuracyDen

\* an answered peer whose ten trials were all correct is recorded with
\* exactly 1, and another one in the same cycle with a negative value
C27_Witness ==
    /\ \E k \in DOMAIN accuracy_score :
          /\ accuracy[k] = Raw(ANSWER_CHECK_COUNT)
          /\ accuracy_score[k] = AccuracyDen
    /\ \E k \in DOMAIN accuracy_score :
          /\ accuracy[k] = RawFalse
          /\ accuracy_score[k] < 0

\* a row without its completed flag
Unflagged(row) == [row EXCEPT !.completed = FALSE]

\* the effect claimed for one call of mark_token_pairs_as_complete
MarkAllOrNothing(pair_list) ==
    LET HasRow(t) == \E i \in 1..Len(token_pairs_table) :
                        NaturalKey(token_pairs_table[i]) = t
        Listed == {pair_list[j] : j \in 1..Len(pair_list)}
    IN  IF \E t \in Listed : ~HasRow(t)
        THEN /\ served'[1].returned = FALSE
             /\ token_pairs_table' = token_pairs_table
        ELSE /\ served'[1].returned = TRUE
             /\ Len(token_pairs_table') = Len(token_pairs_table)
             /\ \A i \in 1..Len(token_pairs_table) :
                   token_pairs_table'[i] =
                       IF NaturalKey(token_pairs_table[i]) \in Listed
                       THEN [token_pairs_table[i] EXCEPT !.completed = TRUE]
                       ELSE token_pairs_table[i]

\* C28: mark_token_pairs_as_complete is all-or-nothing. If a listed
\* (token0, token1, fee) has no row, it returns False and no row has
\* changed, the rows of the tuples listed before the missing one included;
\* if it returns True, the rows of the listed tuples are completed and every
\* other row is as it was. No operation on the table removes a row or
\* changes a field other than completed.
C28_MarkAllOrNothing ==
    [][/\ \A pair_list \in TupleLists :
             MarkTokenPairsAsComplete(pair_list) => MarkAllOrNothing(pair_list)
       /\ Len(token_pairs_table') >= Len(token_pairs_table)
       /\ \A i \in 1..Len(token_pairs_table) :
             Unflagged(token_pairs_table'[i]) = Unflagged(token_pairs_table[i])]_vars

\* the last call listed a stored pair and then a pair without a row: it
\* returned False, the stored pair is still not completed, and a pair that
\* an earlier call completed still is
C28_Witness ==
    /\ Len(served) = 1
    /\ served[1].op = "mark_token_pairs_as_complete"
    /\ served[1].returned = FALSE
    /\ Len(served[1].token_pairs) = 2
    /\ \E i \in 1..Len(token_pairs_table) :
          /\ NaturalKey(token_pairs_table[i]) = served[1].token_pairs[1]
          /\ ~token_pairs_table[i].completed
    /\ \A i \in 1..Len(token_pairs_table) :
          NaturalKey(token_pairs_table[i]) # served[1].token_pairs[2]
    /\ \E i \in 1..Len(token_pairs_table) : token_pairs_table[i].completed

====
